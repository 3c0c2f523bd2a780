---------------------------- MODULE Tools_proofs ----------------------------
(***************************************************************************)
(* What the tool executor promises, for any number of runs, tasks, calls,  *)
(* requests, paths and threads.                                            *)
(*                                                                         *)
(* The lemmas come first: how a visit chooses its batch, and what the      *)
(* handlers do to a tree of files.  Then every action is summed up in a    *)
(* lemma, and each invariant has one lemma with a step per action.         *)
(***************************************************************************)
EXTENDS Tools, FiniteSetTheorems, SequenceTheorems, TLAPS

-----------------------------------------------------------------------------
(* The order in which a visit takes its tasks.                              *)

(* R is a total order of S; what stands up to x in it.                      *)
IsOrder(S, R) ==
    /\ \A x, y \in S : <<x, y>> \in R \/ <<y, x>> \in R
    /\ \A x, y \in S : <<x, y>> \in R /\ <<y, x>> \in R => x = y
    /\ \A x, y, z \in S : <<x, y>> \in R /\ <<y, z>> \in R => <<x, z>> \in R
UpTo(S, R, x) == {y \in S : <<y, x>> \in R}

(* Of a finite set with a total order, every place from the first to the    *)
(* last is taken.                                                           *)
LEMMA EveryPlaceIsTaken ==
    ASSUME NEW S, IsFiniteSet(S), NEW R, IsOrder(S, R), NEW k \in 1 .. Cardinality(S)
    PROVE  \E x \in S : Cardinality(UpTo(S, R, x)) = k
<1> DEFINE Down(x) == {y \in S : <<y, x>> \in R}
           f == [x \in S |-> Cardinality(Down(x))]
           n == Cardinality(S)
<1>1. ASSUME NEW x \in S
      PROVE  /\ IsFiniteSet(Down(x)) /\ Cardinality(Down(x)) \in 1 .. n
             /\ x \in Down(x)
  <2>1. /\ IsFiniteSet(Down(x)) /\ Cardinality(Down(x)) <= n
        /\ Down(x) \in SUBSET S /\ x \in Down(x)
    BY FS_Subset DEF IsOrder
  <2>2. Cardinality(Down(x)) \in Nat /\ Cardinality(Down(x)) # 0 /\ n \in Nat
    BY <2>1, FS_CardinalityType, FS_EmptySet
  <2>3. QED
    BY <2>1, <2>2
<1>2. ASSUME NEW x \in S, NEW y \in S, <<x, y>> \in R, x # y
      PROVE  Cardinality(Down(x)) # Cardinality(Down(y))
  <2>1. Down(x) \in SUBSET Down(y) /\ y \notin Down(x) /\ y \in Down(y)
    BY <1>2 DEF IsOrder
  <2>2. QED
    BY <2>1, <1>1, FS_Subset
<1>3. f \in Injection(S, 1 .. n)
  <2>1. f \in [S -> 1 .. n]
    BY <1>1
  <2>2. ASSUME NEW x \in S, NEW y \in S, f[x] = f[y]
        PROVE  x = y
    <3>1. f[x] = Cardinality(Down(x)) /\ f[y] = Cardinality(Down(y))
      OBVIOUS
    <3> HIDE DEF f, Down
    <3>2. QED
      BY <1>2, <2>2, <3>1 DEF IsOrder
  <2> HIDE DEF f
  <2>3. QED
    BY <2>1, <2>2 DEF Injection, IsInjective
<1>4. n \in Nat /\ IsFiniteSet(1 .. n) /\ Cardinality(1 .. n) = n
  BY FS_CardinalityType, FS_Interval
<1>5. f \in Surjection(S, 1 .. n)
  BY <1>3, <1>4, FS_Injection
<1>6. PICK x \in S : f[x] = k
  BY <1>5 DEF Surjection
<1>7. QED
  BY <1>6 DEF UpTo

(* Such a set has a first element.                                          *)
LEMMA SomethingIsFirst ==
    ASSUME NEW S, IsFiniteSet(S), S # {}, NEW R, IsOrder(S, R)
    PROVE  \E x \in S : \A y \in S : <<x, y>> \in R
<1>1. 1 \in 1 .. Cardinality(S)
  BY FS_CardinalityType, FS_EmptySet
<1>2. PICK x \in S : Cardinality(UpTo(S, R, x)) = 1
  BY <1>1, EveryPlaceIsTaken
<1>3. IsFiniteSet(UpTo(S, R, x)) /\ x \in UpTo(S, R, x)
  BY FS_Subset DEF IsOrder, UpTo
<1>4. PICK z : UpTo(S, R, x) = {z}
  BY <1>2, <1>3, FS_Singleton
<1>5. \A y \in S : <<y, x>> \in R => y = x
  BY <1>3, <1>4 DEF UpTo
<1>6. QED
  BY <1>5 DEF IsOrder

(* The indices of a queue.                                                  *)
LEMMA QueueIndices ==
    ASSUME TypeOK, NEW r \in Runs
    PROVE  /\ IsFiniteSet(Todo(r))
           /\ \A i \in Todo(r) : i \in Int /\ queue[r][i] \in Tasks
                                 /\ prio[queue[r][i]] \in Nat
                                 /\ status[queue[r][i]] = "todo"
                                 /\ queue[r][i] \in Members(queue[r])
<1>1. queue[r] \in Seq(Tasks) /\ prio \in [Tasks -> Nat]
  BY DEF TypeOK
<1>2. DOMAIN queue[r] = 1 .. Len(queue[r]) /\ Len(queue[r]) \in Nat
  BY <1>1
<1>3. IsFiniteSet(DOMAIN queue[r])
  <2>1. Len(queue[r]) \in Int
    BY <1>2
  <2>2. IsFiniteSet(1 .. Len(queue[r]))
    BY <2>1, FS_Interval
  <2>3. QED
    BY <1>2, <2>2, Zenon
<1>4. Todo(r) \in SUBSET DOMAIN queue[r]
  BY DEF Todo
<1>5. IsFiniteSet(Todo(r))
  BY <1>3, <1>4, FS_Subset
<1>6. ASSUME NEW i \in Todo(r)
      PROVE  /\ i \in Int /\ queue[r][i] \in Tasks
             /\ status[queue[r][i]] = "todo" /\ queue[r][i] \in Members(queue[r])
  BY <1>1, <1>2 DEF Todo, Members
<1>7. QED
  BY <1>1, <1>5, <1>6

(* The selected tasks are the open tasks at some of the candidates.         *)
LEMMA SelectedAreCandidates ==
    ASSUME TypeOK, NEW r \in Runs
    PROVE  \E m \in Nat : /\ Selected(r) = [k \in 1 .. m |-> Selected(r)[k]]
                          /\ \A k \in 1 .. m : \E i \in Candidates(r) :
                               Selected(r)[k] = queue[r][i]
<1> DEFINE IsWrite(i) == cmd[queue[r][i]].op \in ParallelWrites
           Top(i) == \A j \in Candidates(r) :
                       IsWrite(j) => prio[queue[r][j]] <= prio[queue[r][i]]
           Some == {i \in Candidates(r) : IsWrite(i) /\ Top(i)}
           Reads == {i \in Candidates(r) : ~IsWrite(i)}
           Before(i, j) == \/ IsWrite(i) /\ ~IsWrite(j)
                           \/ IsWrite(i) = IsWrite(j) /\ i <= j
           Place(i) == Cardinality({j \in Some \cup Reads : Before(j, i)})
           All == Some \cup Reads
           Size == IF Cardinality(All) <= MaxBatch THEN Cardinality(All) ELSE MaxBatch
           Entry(k) == queue[r][CHOOSE i \in All : Place(i) = k]
           R == {x \in All \X All : Before(x[1], x[2])}
<1>1. Selected(r) = [k \in 1 .. Size |-> Entry(k)]
  BY DEF Selected
<1>2. Candidates(r) \subseteq Todo(r)
  BY DEF Candidates
<1>3. All \in SUBSET Todo(r) /\ All \subseteq Candidates(r)
  BY <1>2
<1>4. IsFiniteSet(All) /\ (\A i \in All : i \in Int /\ IsWrite(i) \in BOOLEAN)
  BY <1>3, QueueIndices, FS_Subset
<1> HIDE DEF IsWrite
<1>5. \A x, y \in All : <<x, y>> \in R <=> Before(x, y)
  <2> HIDE DEF Before, All
  <2>1. QED
    OBVIOUS
<1>6. IsOrder(All, R)
  <2> HIDE DEF All, R
  <2>1. /\ \A x, y \in All : Before(x, y) \/ Before(y, x)
        /\ \A x, y \in All : Before(x, y) /\ Before(y, x) => x = y
        /\ \A x, y, z \in All : Before(x, y) /\ Before(y, z) => Before(x, z)
    BY <1>4
  <2> HIDE DEF Before
  <2>2. QED
    BY <1>5, <2>1 DEF IsOrder
<1>7. Size \in Nat /\ Size <= Cardinality(All) /\ Cardinality(All) \in Nat
  BY <1>4, FS_CardinalityType, ToolsAssumption
<1>8. ASSUME NEW k \in 1 .. Size
      PROVE  \E i \in All : Entry(k) = queue[r][i]
  <2> HIDE DEF All, R, Size, Before
  <2>1. k \in 1 .. Cardinality(All)
    BY <1>7
  <2>2. PICK x \in All : Cardinality(UpTo(All, R, x)) = k
    BY <2>1, <1>4, <1>6, EveryPlaceIsTaken
  <2>3. UpTo(All, R, x) = {y \in All : Before(y, x)}
    BY <1>5 DEF UpTo
  <2>4. Place(x) = k
    BY <2>2, <2>3 DEF All
  <2> HIDE DEF Place
  <2>5. (CHOOSE i \in All : Place(i) = k) \in All
    BY <2>4
  <2>6. QED
    BY <2>5
<1> HIDE DEF All, Size, Entry
<1>9. QED
  BY <1>1, <1>3, <1>7, <1>8

(* The one task of a visit that is not a batch is an open task.             *)
LEMMA ForemostIsOpen ==
    ASSUME TypeOK, NEW r \in Runs, Todo(r) # {}
    PROVE  \E i \in Todo(r) : Foremost(r) = queue[r][i]
<1> DEFINE T == Todo(r)
           P(i) == prio[queue[r][i]]
           First(i, j) == P(i) > P(j) \/ (P(i) = P(j) /\ i <= j)
           R == {x \in T \X T : First(x[1], x[2])}
<1>1. IsFiniteSet(T) /\ (\A i \in T : i \in Int /\ P(i) \in Nat)
  BY QueueIndices
<1> HIDE DEF T, P
<1>2. \A x, y \in T : <<x, y>> \in R <=> First(x, y)
  <2> HIDE DEF First
  <2>1. QED
    OBVIOUS
<1>3. IsOrder(T, R)
  <2> HIDE DEF R
  <2>1. QED
    BY <1>1, <1>2 DEF IsOrder
<1>4. T # {}
  BY DEF T
<1>5. PICK i \in T : \A j \in T : <<i, j>> \in R
  <2> HIDE DEF R
  <2>1. QED
    BY <1>1, <1>3, <1>4, SomethingIsFirst
<1>6. \A j \in Todo(r) : \/ prio[queue[r][i]] > prio[queue[r][j]]
                         \/ prio[queue[r][i]] = prio[queue[r][j]] /\ i <= j
  BY <1>2, <1>5 DEF T, P
<1>7. QED
  BY <1>5, <1>6 DEF Foremost, T

-----------------------------------------------------------------------------
(* What the handlers do to the tree of files.                               *)

Disk == [Paths -> [kind : {"none", "dir", "file"}, text : SUBSET Marks,
                   node : Marks \cup {"none"}]]
(* Only a file has a text.                                                  *)
TextOnlyInFiles(d) == \A p \in Paths : ~IsFile(d, p) => d[p].text = {}
(* A disk the calls may leave.                                              *)
Sound(d) == d \in Disk /\ IsTree(d) /\ TextOnlyInFiles(d)

(* The operations whose second step changes the tree.                       *)
Changing == Operations \ (Remote \cup Looking \cup DocxLooking \cup {"convert_to_pdf"})

LEMMA PathFacts ==
    /\ \A p \in Paths : Above[p] \subseteq Paths /\ p \notin Above[p]
    /\ \A p \in Paths : \A q \in Above[p] : Above[q] \subseteq Above[p]
BY PathAssumption

(* The eight changes, with what the system calls ask of the disk.           *)
LEMMA WorksCases ==
    ASSUME NEW d, NEW c \in Command, NEW me, c.op \in Changing, Works(c, d)
    PROVE  LET e == Worked(c, d, me) IN
           \/ /\ c.op \in Overwriting \/ Creates(c)
              /\ d[c.path].kind # "dir" /\ MayHaveParents(d, c.path)
              /\ e = Truncated(WithParents(d, c.path), c.path, me)
           \/ /\ c.op \in {"mkdir", "workspace/create-folder"}
              /\ ~IsFile(d, c.path) /\ MayHaveParents(d, c.path)
              /\ e = MakeDirectory(d, c.path)
           \/ /\ c.op = "append_file"
              /\ d[c.path].kind # "dir" /\ HasParent(d, c.path)
              /\ e = Appended(d, c.path, me)
           \/ /\ Edits(c)
              /\ d[c.path].kind # "dir" /\ HasParent(d, c.path)
              /\ e = Truncated(d, c.path, me)
           \/ /\ c.op = "delete_file" /\ IsFile(d, c.path)
              /\ e = DeleteFile(d, c.path)
           \/ /\ c.op = "delete_directory" /\ d[c.path].kind = "dir"
              /\ e = DeleteBelow(d, c.path)
           \/ /\ c.op \in {"move_file", "rename_file"}
              /\ IsFile(d, c.path) /\ d[c.to].kind # "dir"
              /\ MayHaveParents(d, c.to) \/ Above[c.to] = Above[c.path]
              /\ e = MoveFile(d, c.path, c.to)
           \/ /\ c.op = "copy_file"
              /\ IsFile(d, c.path) /\ d[c.to].kind # "dir" /\ MayHaveParents(d, c.to)
              /\ e = Truncated(WithParents(d, c.to), c.to, me)
<1> USE DEF Changing, Operations, Overwriting, Creates, Edits, Rewriting, DocxRewriting,
            FileOperations, DocxOperations, Endpoints, Remote, Looking, DocxLooking
<1>1. CASE c.op \in Overwriting \/ Creates(c)
  BY <1>1 DEF Works, Worked, SaveDocument, WriteFile
<1>2. CASE c.op \in {"mkdir", "workspace/create-folder"}
  BY <1>2 DEF Works, Worked, Exists, IsFile
<1>3. CASE c.op = "append_file"
  BY <1>3 DEF Works, Worked
<1>4. CASE Edits(c)
  BY <1>4 DEF Works, Worked
<1>5. CASE c.op \in {"delete_file", "delete_directory"}
  BY <1>5 DEF Works, Worked
<1>6. CASE c.op = "move_file"
  BY <1>6 DEF Works, Worked
<1>7. CASE c.op = "rename_file"
  <2>1. Above[c.to] = Above[c.path]
    BY <1>7 DEF Command
  <2>2. QED
    BY <1>7, <2>1 DEF Works, Worked
<1>8. CASE c.op = "copy_file"
  BY <1>8 DEF Works, Worked, CopyFile
<1>9. c.op \in Operations
  BY DEF Command
<1>10. QED
  BY <1>1, <1>2, <1>3, <1>4, <1>5, <1>6, <1>7, <1>8, <1>9

(* The directories that a handler makes above a path stand in each other.   *)
LEMMA ParentsAreSound ==
    ASSUME NEW d, Sound(d), NEW p \in Paths, MayHaveParents(d, p)
    PROVE  LET e == WithParents(d, p)
           IN  /\ Sound(e) /\ HasParent(e, p)
               /\ \A q \in Paths : IsFile(d, q) => e[q] = d[q]
               /\ \A q \in Paths : IsFile(e, q) <=> IsFile(d, q)
               /\ \A q \in Paths : e[q].kind = "dir" <=> d[q].kind = "dir" \/ q \in Above[p]
               /\ AllText(e) = AllText(d)
<1> DEFINE e == WithParents(d, p)
<1>1. \A q \in Paths : e[q] = IF q \in Above[p] THEN Directory ELSE d[q]
  BY DEF WithParents
<1>2. /\ Directory.kind = "dir" /\ Directory.text = {}
      /\ Directory \in [kind : {"none", "dir", "file"}, text : SUBSET Marks,
                        node : Marks \cup {"none"}]
  BY DEF Directory
<1>3. e \in Disk
  BY <1>2 DEF WithParents, Sound, Disk
<1>4. Above[p] \subseteq Paths
  BY PathFacts
<1> HIDE DEF e
<1>5. /\ \A q \in Paths : IsFile(d, q) => e[q] = d[q]
      /\ \A q \in Paths : IsFile(e, q) <=> IsFile(d, q)
      /\ \A q \in Paths : e[q].kind = "dir" <=> d[q].kind = "dir" \/ q \in Above[p]
      /\ HasParent(e, p)
  BY <1>1, <1>2, <1>4 DEF IsFile, MayHaveParents, HasParent
<1>6. \A q \in Paths : e[q].text = d[q].text
  BY <1>1, <1>2, <1>4 DEF Sound, TextOnlyInFiles, MayHaveParents
<1>7. TextOnlyInFiles(e)
  BY <1>5, <1>6 DEF Sound, TextOnlyInFiles
<1>8. IsTree(e)
  <2>1. ASSUME NEW q \in Paths, Exists(e, q), NEW a \in Above[q]
        PROVE  e[a].kind = "dir"
    <3>1. CASE q \in Above[p]
      BY <3>1, <2>1, <1>5, PathFacts
    <3>2. CASE q \notin Above[p]
      <4>1. Exists(d, q) /\ a \in Paths
        BY <3>2, <2>1, <1>1, PathFacts DEF Exists
      <4>2. d[a].kind = "dir"
        BY <4>1 DEF Sound, IsTree, HasParent
      <4>3. QED
        BY <4>1, <4>2, <1>5
    <3>3. QED
      BY <3>1, <3>2
  <2>2. QED
    BY <2>1 DEF IsTree, HasParent
<1>9. AllText(e) = AllText(d)
  BY <1>6 DEF AllText
<1>10. QED
  BY <1>3, <1>5, <1>7, <1>8, <1>9 DEF Sound, e

(* One path changes: to a file or a directory where one can be, or to       *)
(* nothing where nothing lies below it.                                     *)
LEMMA PutIsSound ==
    ASSUME NEW d, Sound(d), NEW p \in Paths,
           NEW x \in [kind : {"none", "dir", "file"}, text : SUBSET Marks,
                      node : Marks \cup {"none"}],
           x.kind # "file" => x.text = {},
           x.kind # "none" => HasParent(d, p),
           x.kind = "dir" \/ (\A q \in Below(p) : ~Exists(d, q))
    PROVE  Sound([d EXCEPT ![p] = x])
<1> DEFINE e == [d EXCEPT ![p] = x]
<1>1. e \in Disk /\ e[p] = x /\ (\A q \in Paths : q # p => e[q] = d[q])
  BY DEF Sound, Disk
<1> HIDE DEF e
<1>2. TextOnlyInFiles(e)
  BY <1>1 DEF Sound, TextOnlyInFiles, IsFile
<1>3. ASSUME NEW q \in Paths, Exists(e, q), NEW a \in Above[q]
      PROVE  e[a].kind = "dir"
  <2>1. a \in Paths /\ p \notin Above[p]
    BY PathFacts
  <2>2. CASE q = p
    <3>1. d[a].kind = "dir" /\ a # p
      BY <2>1, <2>2, <1>1, <1>3 DEF Exists, HasParent
    <3>2. QED
      BY <3>1, <2>1, <1>1
  <2>3. CASE q # p
    <3>1. Exists(d, q)
      BY <2>3, <1>1, <1>3 DEF Exists
    <3>2. d[a].kind = "dir"
      BY <3>1 DEF Sound, IsTree, HasParent
    <3>3. a = p => x.kind = "dir"
      BY <3>1 DEF Below
    <3>4. QED
      BY <3>2, <3>3, <2>1, <1>1
  <2>4. QED
    BY <2>2, <2>3
<1>4. QED
  BY <1>1, <1>2, <1>3 DEF Sound, IsTree, HasParent, e

(* Nothing lies below what is no directory.                                 *)
LEMMA NothingBelow ==
    ASSUME NEW d, Sound(d), NEW p \in Paths, d[p].kind # "dir"
    PROVE  \A q \in Below(p) : ~Exists(d, q)
BY DEF Sound, IsTree, HasParent, Below

(* open(path, "w") and open(path, "a").                                     *)
LEMMA OpeningIsSound ==
    ASSUME NEW d, Sound(d), NEW p \in Paths, NEW me \in Calls,
           d[p].kind # "dir", HasParent(d, p)
    PROVE  Sound(Truncated(d, p, me)) /\ Sound(Appended(d, p, me))
<1> DEFINE x == File({}, IF IsFile(d, p) THEN d[p].node ELSE me)
           y == File(d[p].text \cup {me}, IF IsFile(d, p) THEN d[p].node ELSE me)
<1>1. d[p].node \in Marks \cup {"none"} /\ d[p].text \in SUBSET Marks /\ me \in Marks
  BY DEF Sound, Disk, Marks
<1>2. /\ x \in [kind : {"none", "dir", "file"}, text : SUBSET Marks,
                node : Marks \cup {"none"}]
      /\ y \in [kind : {"none", "dir", "file"}, text : SUBSET Marks,
                node : Marks \cup {"none"}]
      /\ x.kind = "file" /\ y.kind = "file"
  BY <1>1 DEF File
<1> HIDE DEF x, y
<1>3. Sound([d EXCEPT ![p] = x]) /\ Sound([d EXCEPT ![p] = y])
  BY <1>2, PutIsSound, NothingBelow
<1>4. QED
  BY <1>3 DEF Truncated, Appended, x, y

LEMMA DeletingIsSound ==
    ASSUME NEW d, Sound(d), NEW p \in Paths
    PROVE  /\ IsFile(d, p) => Sound(DeleteFile(d, p))
           /\ Sound(DeleteBelow(d, p))
           /\ Emptied(d, p) => Sound([d EXCEPT ![p] = Absent])
<1>1. /\ Absent \in [kind : {"none", "dir", "file"}, text : SUBSET Marks,
                     node : Marks \cup {"none"}]
      /\ Absent.kind = "none" /\ Absent.text = {}
  BY DEF Absent
<1>2. IsFile(d, p) => Sound(DeleteFile(d, p))
  BY <1>1, PutIsSound, NothingBelow DEF DeleteFile, IsFile
<1>3. Emptied(d, p) => Sound([d EXCEPT ![p] = Absent])
  BY <1>1, PutIsSound DEF Emptied
<1>4. Sound(DeleteBelow(d, p))
  <2> DEFINE e == DeleteBelow(d, p)
  <2>1. \A q \in Paths : e[q] = IF q \in Below(p) THEN Absent ELSE d[q]
    BY DEF DeleteBelow
  <2>2. e \in Disk
    BY <1>1 DEF DeleteBelow, Sound, Disk
  <2> HIDE DEF e
  <2>3. TextOnlyInFiles(e)
    BY <2>1, <1>1 DEF Sound, TextOnlyInFiles, IsFile
  <2>4. ASSUME NEW q \in Paths, Exists(e, q), NEW a \in Above[q]
        PROVE  e[a].kind = "dir"
    <3>1. a \in Paths /\ Above[a] \subseteq Above[q]
      BY PathFacts
    <3>2. q \notin Below(p) /\ Exists(d, q)
      BY <2>1, <2>4, <1>1 DEF Exists
    <3>3. a \notin Below(p)
      BY <3>1, <3>2 DEF Below
    <3>4. d[a].kind = "dir"
      BY <3>2 DEF Sound, IsTree, HasParent
    <3>5. QED
      BY <3>1, <3>3, <3>4, <2>1
  <2>5. QED
    BY <2>2, <2>3, <2>4 DEF Sound, IsTree, HasParent, e
<1>5. QED
  BY <1>2, <1>3, <1>4

(* A file is moved to a place whose directories exist.                      *)
LEMMA MovingIsSound ==
    ASSUME NEW d, Sound(d), NEW p \in Paths, NEW to \in Paths,
           IsFile(d, p), d[to].kind # "dir", MayHaveParents(d, to)
    PROVE  Sound(MoveFile(d, p, to))
<1> DEFINE w == WithParents(d, to)
           m == [w EXCEPT ![to] = d[p]]
<1>1. /\ Sound(w) /\ HasParent(w, to) /\ w[to].kind # "dir"
      /\ IsFile(w, p) /\ w[p].kind # "dir"
  BY ParentsAreSound, PathFacts DEF IsFile
<1>2. /\ d[p] \in [kind : {"none", "dir", "file"}, text : SUBSET Marks,
                   node : Marks \cup {"none"}]
      /\ d[p].kind = "file"
  BY DEF Sound, Disk, IsFile
<1>3. Absent \in [kind : {"none", "dir", "file"}, text : SUBSET Marks,
                  node : Marks \cup {"none"}]
      /\ Absent.kind = "none" /\ Absent.text = {}
  BY DEF Absent
<1>4. w \in Disk
  BY <1>1 DEF Sound
<1>5. MoveFile(d, p, to) = [m EXCEPT ![p] = Absent]
  BY <1>4 DEF MoveFile, Disk
<1> HIDE DEF w
<1>6. Sound(m)
  BY <1>1, <1>2, PutIsSound, NothingBelow
<1>7. IsFile(m, p)
  BY <1>1, <1>2, <1>4 DEF IsFile, Disk
<1> HIDE DEF m
<1>8. Sound([m EXCEPT ![p] = Absent])
  BY <1>3, <1>6, <1>7, PutIsSound, NothingBelow DEF IsFile
<1>9. QED
  BY <1>5, <1>8

(* Every change leaves a tree.                                              *)
LEMMA WorkedIsSound ==
    ASSUME NEW d, Sound(d), NEW c \in Command, NEW me \in Calls,
           c.op \in Changing, Works(c, d)
    PROVE  Sound(Worked(c, d, me))
<1>1. c.path \in Paths /\ c.to \in Paths
  BY DEF Command
<1>2. \A p \in Paths : d[p].kind # "dir" /\ MayHaveParents(d, p) =>
        Sound(Truncated(WithParents(d, p), p, me))
  BY ParentsAreSound, OpeningIsSound, PathFacts
<1>3. \A p \in Paths : ~IsFile(d, p) /\ MayHaveParents(d, p) => Sound(MakeDirectory(d, p))
  <2>1. ASSUME NEW p \in Paths, ~IsFile(d, p), MayHaveParents(d, p)
        PROVE  Sound(MakeDirectory(d, p))
    <3>1. Sound(WithParents(d, p)) /\ HasParent(WithParents(d, p), p)
      BY <2>1, ParentsAreSound
    <3>2. /\ Directory \in [kind : {"none", "dir", "file"}, text : SUBSET Marks,
                            node : Marks \cup {"none"}]
          /\ Directory.kind = "dir" /\ Directory.text = {}
      BY DEF Directory
    <3>3. QED
      BY <3>1, <3>2, PutIsSound DEF MakeDirectory
  <2>2. QED
    BY <2>1
<1>4. \A p \in Paths : IsFile(d, p) => HasParent(d, p)
  BY DEF Sound, IsTree, IsFile, Exists
<1>5. ASSUME IsFile(d, c.path), d[c.to].kind # "dir",
             MayHaveParents(d, c.to) \/ Above[c.to] = Above[c.path]
      PROVE  Sound(MoveFile(d, c.path, c.to))
  <2>1. MayHaveParents(d, c.to)
    BY <1>1, <1>4, <1>5 DEF MayHaveParents, HasParent, IsFile
  <2>2. QED
    BY <2>1, <1>1, <1>5, MovingIsSound
<1>6. \A p \in Paths : d[p].kind # "dir" /\ HasParent(d, p) =>
        Sound(Truncated(d, p, me)) /\ Sound(Appended(d, p, me))
  BY OpeningIsSound
<1>7. \A p \in Paths : /\ IsFile(d, p) => Sound(DeleteFile(d, p))
                      /\ Sound(DeleteBelow(d, p))
  BY DeletingIsSound
<1> DEFINE e == Worked(c, d, me)
<1>8. \/ \E p \in {c.path, c.to} : /\ d[p].kind # "dir" /\ MayHaveParents(d, p)
                                  /\ e = Truncated(WithParents(d, p), p, me)
      \/ ~IsFile(d, c.path) /\ MayHaveParents(d, c.path) /\ e = MakeDirectory(d, c.path)
      \/ /\ d[c.path].kind # "dir" /\ HasParent(d, c.path)
         /\ e \in {Truncated(d, c.path, me), Appended(d, c.path, me)}
      \/ IsFile(d, c.path) /\ e = DeleteFile(d, c.path)
      \/ e = DeleteBelow(d, c.path)
      \/ /\ IsFile(d, c.path) /\ d[c.to].kind # "dir"
         /\ MayHaveParents(d, c.to) \/ Above[c.to] = Above[c.path]
         /\ e = MoveFile(d, c.path, c.to)
  <2> HIDE DEF e
  <2>1. QED
    BY WorksCases DEF e
<1> HIDE DEF e
<1>9. QED
  BY <1>1, <1>2, <1>3, <1>5, <1>6, <1>7, <1>8 DEF e

(* Writing into an open file, wherever it is now.                           *)
LEMMA FilledIsSound ==
    ASSUME NEW d, Sound(d), NEW n \in Marks \cup {"none"}, NEW text \in SUBSET Marks
    PROVE  Sound(Filled(d, n, text))
<1> DEFINE e == Filled(d, n, text)
<1>1. File(text, n) \in [kind : {"none", "dir", "file"}, text : SUBSET Marks,
                         node : Marks \cup {"none"}]
      /\ File(text, n).kind = "file"
  BY DEF File
<1>2. \A p \in Paths : e[p] = IF IsFile(d, p) /\ d[p].node = n THEN File(text, n) ELSE d[p]
  BY DEF Filled
<1>3. e \in Disk
  BY <1>1 DEF Filled, Sound, Disk
<1> HIDE DEF e
<1>4. \A p \in Paths : e[p].kind = d[p].kind
  BY <1>1, <1>2 DEF IsFile
<1>5. TextOnlyInFiles(e)
  BY <1>2, <1>4 DEF Sound, TextOnlyInFiles, IsFile
<1>6. IsTree(e)
  BY <1>4, PathFacts DEF Sound, IsTree, HasParent, Exists
<1>7. QED
  BY <1>3, <1>5, <1>6 DEF Sound, e

(* Distinct files are distinct: the tools make no hard links.               *)
NodesDiffer(d) ==
    \A p, q \in Paths : IsFile(d, p) /\ IsFile(d, q) /\ d[p].node = d[q].node => p = q
NodesOf(d) == {d[p].node : p \in {q \in Paths : IsFile(d, q)}}

(* A file that is opened for writing is the old one or a new one.           *)
LEMMA OpeningKeepsNodes ==
    ASSUME NEW d, Sound(d), NodesDiffer(d), NEW p \in Paths, NEW me, me \notin NodesOf(d)
    PROVE  \A e \in {Truncated(d, p, me), Appended(d, p, me)} :
             /\ NodesDiffer(e) /\ NodesOf(e) \subseteq NodesOf(d) \cup {me}
             /\ IsFile(e, p) /\ (\A q \in Paths : q # p => e[q] = d[q])
             /\ IsFile(d, p) => e[p].node = d[p].node
<1>1. ASSUME NEW e, NEW text, d \in Disk,
             e = [d EXCEPT ![p] = File(text, IF IsFile(d, p) THEN d[p].node ELSE me)]
      PROVE  /\ NodesDiffer(e) /\ NodesOf(e) \subseteq NodesOf(d) \cup {me}
             /\ IsFile(e, p) /\ (\A q \in Paths : q # p => e[q] = d[q])
             /\ IsFile(d, p) => e[p].node = d[p].node
  <2>1. /\ \A q \in Paths : q # p => e[q] = d[q]
        /\ e[p] = File(text, IF IsFile(d, p) THEN d[p].node ELSE me)
    BY <1>1 DEF Disk
  <2>2. /\ IsFile(e, p)
        /\ e[p].node = IF IsFile(d, p) THEN d[p].node ELSE me
    BY <2>1 DEF File, IsFile
  <2>3. \A q \in Paths : IsFile(d, q) => d[q].node # me
    BY DEF NodesOf
  <2>4. NodesDiffer(e)
    BY <2>1, <2>2, <2>3 DEF NodesDiffer, IsFile
  <2>5. NodesOf(e) \subseteq NodesOf(d) \cup {me}
    <3>1. \A q \in Paths : IsFile(e, q) =>
            e[q].node = me \/ (\E s \in Paths : IsFile(d, s) /\ e[q].node = d[s].node)
      BY <2>1, <2>2 DEF IsFile
    <3>2. QED
      BY <3>1 DEF NodesOf
  <2>6. QED
    BY <2>1, <2>2, <2>4, <2>5
<1>2. QED
  BY <1>1 DEF Truncated, Appended, Sound

(* Making directories changes no file.                                      *)
LEMMA ParentsKeepNodes ==
    ASSUME NEW d, Sound(d), NEW p \in Paths, MayHaveParents(d, p)
    PROVE  LET e == WithParents(d, p)
           IN  /\ NodesDiffer(d) => NodesDiffer(e)
               /\ NodesOf(e) = NodesOf(d)
<1> DEFINE e == WithParents(d, p)
<1>1. /\ \A q \in Paths : IsFile(d, q) => e[q] = d[q]
      /\ \A q \in Paths : IsFile(e, q) <=> IsFile(d, q)
  BY ParentsAreSound
<1> HIDE DEF e
<1>2. NodesDiffer(d) => NodesDiffer(e)
  BY <1>1 DEF NodesDiffer
<1>3. NodesOf(e) = NodesOf(d)
  BY <1>1 DEF NodesOf
<1>4. QED
  BY <1>2, <1>3 DEF e

(* Deleting and making a directory leave a part of the files.               *)
LEMMA FewerNodes ==
    ASSUME NEW d, NodesDiffer(d), NEW e, \A p \in Paths : IsFile(e, p) => e[p] = d[p]
    PROVE  NodesDiffer(e) /\ NodesOf(e) \subseteq NodesOf(d)
BY DEF NodesDiffer, NodesOf, IsFile

(* A moved file stays the same file.                                        *)
LEMMA MovingKeepsNodes ==
    ASSUME NEW d, d \in Disk, NodesDiffer(d), NEW p \in Paths, NEW to \in Paths, IsFile(d, p),
           NodesDiffer(WithParents(d, to)), NodesOf(WithParents(d, to)) = NodesOf(d),
           WithParents(d, to) \in Disk, WithParents(d, to)[p] = d[p]
    PROVE  NodesDiffer(MoveFile(d, p, to)) /\ NodesOf(MoveFile(d, p, to)) \subseteq NodesOf(d)
<1> DEFINE w == WithParents(d, to)
           e == MoveFile(d, p, to)
<1>1. \A q \in Paths : e[q] = IF q = p THEN Absent ELSE IF q = to THEN d[p] ELSE w[q]
  BY DEF MoveFile, Disk
<1>2. ~IsFile(e, p)
  BY <1>1 DEF IsFile, Absent
<1>3. /\ w[p] = d[p] /\ NodesDiffer(w) /\ NodesOf(w) = NodesOf(d)
  OBVIOUS
<1> HIDE DEF e, w
<1>4. NodesDiffer(e)
  BY <1>1, <1>2, <1>3 DEF NodesDiffer, IsFile
<1>5. \A q \in Paths : IsFile(e, q) =>
        \E s \in Paths : IsFile(w, s) /\ e[q].node = w[s].node
  BY <1>1, <1>2, <1>3 DEF IsFile
<1>6. NodesOf(e) \subseteq NodesOf(w)
  BY <1>5 DEF NodesOf
<1>7. QED
  BY <1>3, <1>4, <1>6 DEF e

(* A change makes at most one new file, that of its call; and rmtree none.  *)
LEMMA WorkedKeepsNodes ==
    ASSUME NEW d, Sound(d), NodesDiffer(d), NEW c \in Command, NEW me, me \notin NodesOf(d),
           c.op \in Changing, Works(c, d)
    PROVE  LET e == Worked(c, d, me)
           IN  /\ NodesDiffer(e) /\ NodesOf(e) \subseteq NodesOf(d) \cup {me}
               /\ c.op = "delete_directory" => NodesOf(e) \subseteq NodesOf(d)
<1>1. c.path \in Paths /\ c.to \in Paths /\ d \in Disk
  BY DEF Command, Sound
<1>2. ASSUME NEW p \in Paths, d[p].kind # "dir", MayHaveParents(d, p)
      PROVE  LET e == Truncated(WithParents(d, p), p, me)
             IN  NodesDiffer(e) /\ NodesOf(e) \subseteq NodesOf(d) \cup {me}
  <2>1. /\ Sound(WithParents(d, p)) /\ NodesDiffer(WithParents(d, p))
        /\ NodesOf(WithParents(d, p)) = NodesOf(d)
    BY <1>2, ParentsAreSound, ParentsKeepNodes
  <2>2. QED
    BY <2>1, OpeningKeepsNodes
<1>3. \A p \in Paths : d[p].kind # "dir" /\ HasParent(d, p) =>
        \A e \in {Truncated(d, p, me), Appended(d, p, me)} :
          NodesDiffer(e) /\ NodesOf(e) \subseteq NodesOf(d) \cup {me}
  BY OpeningKeepsNodes
<1>4. ASSUME NEW p \in Paths, ~IsFile(d, p), MayHaveParents(d, p)
      PROVE  NodesDiffer(MakeDirectory(d, p)) /\ NodesOf(MakeDirectory(d, p)) \subseteq NodesOf(d)
  <2> DEFINE e == MakeDirectory(d, p)
             w == WithParents(d, p)
  <2>1. /\ w \in Disk
        /\ \A q \in Paths : IsFile(d, q) => w[q] = d[q]
        /\ \A q \in Paths : IsFile(w, q) <=> IsFile(d, q)
    BY <1>4, ParentsAreSound DEF Sound
  <2>2. e[p] = Directory /\ (\A q \in Paths : q # p => e[q] = w[q])
    BY <2>1 DEF MakeDirectory, Disk
  <2> HIDE DEF e, w
  <2>3. \A q \in Paths : IsFile(e, q) => e[q] = d[q]
    BY <2>1, <2>2 DEF IsFile, Directory
  <2>4. QED
    BY <2>3, FewerNodes DEF e
<1>5. ASSUME NEW p \in Paths
      PROVE  \A e \in {DeleteFile(d, p), DeleteBelow(d, p)} :
               NodesDiffer(e) /\ NodesOf(e) \subseteq NodesOf(d)
  <2>1. \A e \in {DeleteFile(d, p), DeleteBelow(d, p)} : \A q \in Paths :
          e[q] = d[q] \/ e[q] = Absent
    BY <1>1 DEF DeleteFile, DeleteBelow, Disk
  <2>2. \A e \in {DeleteFile(d, p), DeleteBelow(d, p)} : \A q \in Paths :
          IsFile(e, q) => e[q] = d[q]
    BY <2>1 DEF IsFile, Absent
  <2> HIDE DEF DeleteFile, DeleteBelow
  <2>3. QED
    BY <2>2, FewerNodes
<1>6. ASSUME IsFile(d, c.path), d[c.to].kind # "dir",
             MayHaveParents(d, c.to) \/ Above[c.to] = Above[c.path]
      PROVE  /\ NodesDiffer(MoveFile(d, c.path, c.to))
             /\ NodesOf(MoveFile(d, c.path, c.to)) \subseteq NodesOf(d)
  <2>1. HasParent(d, c.path)
    BY <1>1, <1>6 DEF Sound, IsTree, IsFile, Exists
  <2>2. MayHaveParents(d, c.to)
    BY <2>1, <1>6 DEF MayHaveParents, HasParent, IsFile
  <2> DEFINE w == WithParents(d, c.to)
  <2>3. NodesDiffer(w) /\ NodesOf(w) = NodesOf(d) /\ w \in Disk /\ w[c.path] = d[c.path]
    BY <1>1, <1>6, <2>2, ParentsAreSound, ParentsKeepNodes DEF Sound
  <2>4. QED
    BY <1>1, <1>6, <2>3, MovingKeepsNodes
<1> DEFINE e == Worked(c, d, me)
<1>7. \/ \E p \in {c.path, c.to} : /\ d[p].kind # "dir" /\ MayHaveParents(d, p)
                                  /\ e = Truncated(WithParents(d, p), p, me)
                                  /\ c.op # "delete_directory"
      \/ ~IsFile(d, c.path) /\ MayHaveParents(d, c.path) /\ e = MakeDirectory(d, c.path)
      \/ /\ d[c.path].kind # "dir" /\ HasParent(d, c.path)
         /\ e \in {Truncated(d, c.path, me), Appended(d, c.path, me)}
         /\ c.op # "delete_directory"
      \/ e \in {DeleteFile(d, c.path), DeleteBelow(d, c.path)}
      \/ /\ IsFile(d, c.path) /\ d[c.to].kind # "dir"
         /\ MayHaveParents(d, c.to) \/ Above[c.to] = Above[c.path]
         /\ e = MoveFile(d, c.path, c.to)
  <2>1. "delete_directory" \notin Overwriting \cup {"create_file", "files/create"}
                                  \cup Rewriting \cup DocxRewriting
    BY DEF Overwriting, Rewriting, DocxRewriting
  <2> HIDE DEF e
  <2>2. QED
    BY <2>1, WorksCases DEF e, Edits, Creates
<1> HIDE DEF e
<1>8. QED
  BY <1>1, <1>2, <1>3, <1>4, <1>5, <1>6, <1>7 DEF e

(* What a write of a batch does: it leaves the other files alone, and its   *)
(* own file is there, the same one if there was one.                        *)
LEMMA WriteEffect ==
    ASSUME NEW d, Sound(d), NEW c \in Command, NEW me, c.op \in ParallelWrites, Works(c, d)
    PROVE  LET e == Worked(c, d, me)
           IN  /\ \A q \in Paths : IsFile(d, q) /\ q # c.path => e[q] = d[q]
               /\ IsFile(e, c.path)
               /\ IsFile(d, c.path) => e[c.path].node = d[c.path].node
               /\ c.op = "append_file" => me \in e[c.path].text
<1>1. c.path \in Paths /\ d \in Disk /\ c.op \in Changing
  BY DEF Command, Sound, ParallelWrites, Changing, Operations, FileOperations, Remote,
         Looking, DocxLooking
<1> DEFINE e == Worked(c, d, me)
           w == WithParents(d, c.path)
<1>2. \/ /\ MayHaveParents(d, c.path) /\ e = Truncated(w, c.path, me)
         /\ c.op # "append_file"
      \/ c.op = "append_file" /\ e = Appended(d, c.path, me)
  <2> HIDE DEF e
  <2>1. QED
    BY <1>1, WorksCases DEF e, ParallelWrites, Edits, Rewriting, DocxRewriting, Overwriting,
                            Creates
<1> HIDE DEF e
<1>3. CASE MayHaveParents(d, c.path) /\ e = Truncated(w, c.path, me) /\ c.op # "append_file"
  <2>1. /\ w \in Disk
        /\ \A q \in Paths : IsFile(d, q) => w[q] = d[q]
        /\ \A q \in Paths : IsFile(w, q) <=> IsFile(d, q)
    BY <1>1, <1>3, ParentsAreSound DEF Sound
  <2> HIDE DEF w
  <2>2. /\ \A q \in Paths : q # c.path => e[q] = w[q]
        /\ e[c.path] = File({}, IF IsFile(w, c.path) THEN w[c.path].node ELSE me)
    BY <1>1, <1>3, <2>1 DEF Truncated, Disk
  <2>3. QED
    BY <1>1, <1>3, <2>1, <2>2 DEF File, IsFile, e
<1>4. CASE c.op = "append_file" /\ e = Appended(d, c.path, me)
  <2>1. /\ \A q \in Paths : q # c.path => e[q] = d[q]
        /\ e[c.path] = File(d[c.path].text \cup {me},
                            IF IsFile(d, c.path) THEN d[c.path].node ELSE me)
    BY <1>1, <1>4 DEF Appended, Disk
  <2>2. QED
    BY <1>1, <1>4, <2>1 DEF File, IsFile, e
<1>5. QED
  BY <1>2, <1>3, <1>4

(* append_file, mkdir and create-folder take no text away.                  *)
LEMMA GentleWorkKeepsText ==
    ASSUME NEW d, Sound(d), NEW c \in Command, NEW me, Works(c, d),
           c.op \in {"append_file", "mkdir", "workspace/create-folder"}
    PROVE  AllText(d) \subseteq AllText(Worked(c, d, me))
<1>1. c.path \in Paths /\ d \in Disk /\ c.op \in Changing
  BY DEF Command, Sound, Changing, Operations, FileOperations, Remote,
         Looking, DocxLooking, Endpoints
<1> DEFINE e == Worked(c, d, me)
<1>2. \/ /\ ~IsFile(d, c.path) /\ MayHaveParents(d, c.path)
         /\ e = MakeDirectory(d, c.path)
      \/ e = Appended(d, c.path, me)
  <2> HIDE DEF e
  <2>1. QED
    BY <1>1, WorksCases DEF e, Edits, Rewriting, DocxRewriting, Overwriting, Creates
<1> HIDE DEF e
<1>3. CASE ~IsFile(d, c.path) /\ MayHaveParents(d, c.path) /\ e = MakeDirectory(d, c.path)
  <2> DEFINE w == WithParents(d, c.path)
  <2>1. w \in Disk /\ AllText(w) = AllText(d) /\ ~IsFile(w, c.path) /\ TextOnlyInFiles(w)
    BY <1>1, <1>3, ParentsAreSound DEF Sound
  <2>2. \A q \in Paths : q # c.path => e[q] = w[q]
    BY <1>1, <1>3, <2>1 DEF MakeDirectory, Disk
  <2> HIDE DEF w
  <2>3. w[c.path].text = {}
    BY <1>1, <2>1 DEF TextOnlyInFiles
  <2>4. AllText(w) \subseteq AllText(e)
    BY <2>2, <2>3 DEF AllText
  <2>5. QED
    BY <2>1, <2>4 DEF e
<1>4. CASE e = Appended(d, c.path, me)
  <2>1. \A q \in Paths : d[q].text \subseteq e[q].text
    BY <1>1, <1>4 DEF Appended, Disk, File
  <2>2. QED
    BY <2>1 DEF AllText, e
<1>5. QED
  BY <1>2, <1>3, <1>4

-----------------------------------------------------------------------------
(* The actions, summed up.                                                  *)

(* A batch for a visit of r: open tasks of its queue, and of two tasks      *)
(* both are searches, reads or writes, of paths that are spelled            *)
(* differently.                                                             *)
IsBatch(r, b) ==
    /\ b \in Seq(Tasks)
    /\ \A t \in Members(b) : t \in Members(queue[r]) /\ status[t] = "todo"
    /\ \A t, u \in Members(b) : t # u =>
         /\ cmd[t].op \in Batchable \cup {"search"}
         /\ cmd[t].op \in Batchable /\ cmd[u].op \in Batchable =>
              cmd[t].path # cmd[u].path \/ cmd[t].dotted # cmd[u].dotted

(* What Visit puts into the batch.                                          *)
LEMMA SelectedIsBatch ==
    ASSUME TypeOK, NEW r \in Runs
    PROVE  IsBatch(r, Selected(r))
<1>1. PICK m \in Nat : /\ Selected(r) = [k \in 1 .. m |-> Selected(r)[k]]
                       /\ \A k \in 1 .. m : \E i \in Candidates(r) :
                            Selected(r)[k] = queue[r][i]
  BY SelectedAreCandidates
<1> DEFINE b == Selected(r)
<1>2. Candidates(r) \subseteq Todo(r)
  BY DEF Candidates
<1> HIDE DEF b
<1>3. \A k \in 1 .. m : b[k] \in Tasks
  BY <1>1, <1>2, QueueIndices DEF b
<1>4. b \in Seq(Tasks) /\ DOMAIN b = 1 .. m
  <2>1. b = [k \in 1 .. m |-> b[k]]
    BY <1>1 DEF b
  <2>2. b \in [1 .. m -> Tasks]
    BY <2>1, <1>3
  <2>3. QED
    BY <2>2
<1>5. \A t \in Members(b) : \E i \in Candidates(r) : t = queue[r][i]
  BY <1>1, <1>4 DEF Members, b
<1>6. \A t \in Members(b) : t \in Members(queue[r]) /\ status[t] = "todo"
  BY <1>2, <1>5, QueueIndices
<1>7. ASSUME NEW t \in Members(b), NEW u \in Members(b), t # u
      PROVE  /\ cmd[t].op \in Batchable \cup {"search"}
             /\ cmd[t].op \in Batchable /\ cmd[u].op \in Batchable =>
                  cmd[t].path # cmd[u].path \/ cmd[t].dotted # cmd[u].dotted
  <2>1. PICK i \in Candidates(r), j \in Candidates(r) : t = queue[r][i] /\ u = queue[r][j]
    BY <1>5
  <2>2. i \in Int /\ j \in Int /\ i # j /\ i \in Todo(r) /\ j \in Todo(r)
    BY <1>2, <1>7, <2>1, QueueIndices
  <2>3. \A x \in Candidates(r) : cmd[queue[r][x]].op \in Batchable \cup {"search"}
    BY DEF Candidates
  <2>4. \A x \in Candidates(r), y \in Todo(r) :
          /\ cmd[queue[r][x]].op \in Batchable /\ cmd[queue[r][y]].op \in Batchable /\ y < x
          => \/ cmd[queue[r][y]].path # cmd[queue[r][x]].path
             \/ cmd[queue[r][y]].dotted # cmd[queue[r][x]].dotted
    BY DEF Candidates, Batchable, ParallelWrites, ParallelReads
  <2>5. i < j \/ j < i
    BY <2>2
  <2>6. QED
    BY <2>1, <2>2, <2>3, <2>4, <2>5
<1>8. QED
  BY <1>4, <1>6, <1>7 DEF IsBatch, b

(* Visit starts a batch of its run.                                         *)
LEMMA VisitCases ==
    ASSUME TypeOK, NEW r \in Runs, Visit(r)
    PROVE  \E b : /\ IsBatch(r, b)
                  /\ batch' = [batch EXCEPT ![r] = b]
                  /\ at' = [at EXCEPT ![r] = "visit"]
                  /\ status' = [t \in Tasks |-> IF t \in Members(b) THEN "running"
                                                ELSE status[t]]
                  /\ phase' = [c \in Calls |-> IF c \in Members(b) THEN "queued"
                                               ELSE phase[c]]
                  /\ arrived' = [arrived EXCEPT ![r] = <<>>]
                  /\ alone' = alone \cup {r}
                  /\ at[r] = "free"
                  /\ UNCHANGED <<disk, abandoned, queue, prio, cmd, ok, seen, node,
                                 repaired, base, lost, wins>>
<1> DEFINE b == IF Cardinality(Candidates(r)) > 1 /\ Len(Selected(r)) > 1
                THEN Selected(r) ELSE <<Foremost(r)>>
<1>1. IsBatch(r, <<Foremost(r)>>)
  <2>1. PICK i \in Todo(r) : Foremost(r) = queue[r][i]
    BY ForemostIsOpen DEF Visit
  <2>2. /\ Foremost(r) \in Tasks /\ status[Foremost(r)] = "todo"
        /\ Foremost(r) \in Members(queue[r])
    BY <2>1, QueueIndices
  <2>3. \A x : Members(<<x>>) = {x}
    BY DEF Members
  <2>4. QED
    BY <2>2, <2>3 DEF IsBatch
<1>2. IsBatch(r, b)
  BY <1>1, SelectedIsBatch
<1>3. batch' = [batch EXCEPT ![r] = b]
  BY DEF Visit
<1>4. batch'[r] = b
  BY <1>3 DEF TypeOK
<1> HIDE DEF b
<1>5. QED
  BY <1>2, <1>3, <1>4 DEF Visit

(* A call that goes on, or ends with or without success.                    *)
LEMMA CallCases ==
    ASSUME NEW c \in Calls, Step(c)
    PROVE  /\ phase[c] \in {"queued", "act", "fill"}
           /\ \/ \E to \in {"act", "fill"} : Goes(c, to)
              \/ \E success \in BOOLEAN : Ended(c, success)
BY DEF Step, Check, Git, WebSearch, Composio, Answered, Convert, Act, Fill,
       RemoveDirectory, Exists

(* The members of a sequence of tasks are tasks.                            *)
LEMMA SeqMembers ==
    ASSUME NEW S, NEW s \in Seq(S)
    PROVE  Members(s) \subseteq S
BY DEF Members

-----------------------------------------------------------------------------
(* Type correctness.                                                        *)

(* A call between its check and its step is one that changes something.     *)
LookersDoNotAct == \A c \in Calls : phase[c] = "act" => cmd[c].op \notin Looking \cup DocxLooking
(* A run's queue and batch hold its own tasks.                              *)
OwnTasks == \A r \in Runs : /\ Members(queue[r]) \subseteq Owned(r)
                            /\ Members(batch[r]) \subseteq Owned(r)
WellFormed == TypeOK /\ TextOnlyInFiles(disk) /\ LookersDoNotAct /\ OwnTasks

(* The tasks of a run are tasks, and of no other run.                       *)
LEMMA OwnedTasks ==
    /\ \A r \in Runs : Owned(r) \subseteq Tasks
    /\ \A t \in Tasks : \E r \in Runs : t \in Owned(r)
    /\ \A r, s \in Runs : \A t \in Owned(r) \cap Owned(s) : r = s
    /\ \A r \in Runs : Owned(r) \subseteq Calls
    /\ Tasks \subseteq Calls
BY ToolsAssumption DEF Owned, Tasks, Calls

(* What every step of a call does to the bookkeeping.                       *)
LEMMA CallFrame ==
    ASSUME TypeOK, NEW c \in Calls, Step(c)
    PROVE  /\ UNCHANGED <<at, abandoned, queue, prio, status, batch, cmd, repaired>>
           /\ \E p \in {"act", "fill", "done"} : phase' = [phase EXCEPT ![c] = p]
           /\ phase'[c] \in {"act", "fill"} => ok' = ok /\ wins' = wins /\ arrived' = arrived
           /\ phase'[c] = "done" => \E success \in BOOLEAN : Ended(c, success)
<1>1. CASE \E to \in {"act", "fill"} : Goes(c, to)
  <2>1. phase \in [Calls -> {"none", "queued", "act", "fill", "done"}]
    BY DEF TypeOK
  <2>2. QED
    BY <1>1, <2>1 DEF Goes
<1>2. CASE \E success \in BOOLEAN : Ended(c, success)
  <2>1. phase \in [Calls -> {"none", "queued", "act", "fill", "done"}]
    BY DEF TypeOK
  <2>2. QED
    BY <1>2, <2>1 DEF Ended
<1>3. QED
  BY <1>1, <1>2, CallCases

(* The bookkeeping stays typed.                                             *)
LEMMA BooksTyped ==
    ASSUME TypeOK, NEW c \in Calls, Step(c)
    PROVE  /\ at' \in [Runs -> {"free", "visit", "over"}] /\ abandoned' \subseteq Runs
           /\ queue' \in [Runs -> Seq(Tasks)] /\ batch' \in [Runs -> Seq(Tasks)]
           /\ arrived' \in [Runs -> Seq(Tasks)]
           /\ prio' \in [Tasks -> Nat]
           /\ status' \in [Tasks -> {"none", "todo", "running", "done", "failed"}]
           /\ cmd' \in [Calls -> Command] /\ repaired' \subseteq Tasks
           /\ phase' \in [Calls -> {"none", "queued", "act", "fill", "done"}]
           /\ ok' \in [Calls -> BOOLEAN] /\ wins' \in [Tasks -> Nat]
<1>1. UNCHANGED <<at, abandoned, queue, prio, status, batch, cmd, repaired>>
  BY CallFrame
<1>2. phase' \in [Calls -> {"none", "queued", "act", "fill", "done"}]
  BY CallFrame DEF TypeOK
<1>3. ASSUME NEW success \in BOOLEAN, Ended(c, success)
      PROVE  /\ ok' \in [Calls -> BOOLEAN] /\ wins' \in [Tasks -> Nat]
             /\ arrived' \in [Runs -> Seq(Tasks)]
  <2>1. ok' \in [Calls -> BOOLEAN]
    BY <1>3 DEF Ended, TypeOK
  <2>2. wins' \in [Tasks -> Nat]
    BY <1>3 DEF Ended, TypeOK
  <2>3. \A r \in Runs : c \in Owned(r) => Append(arrived[r], c) \in Seq(Tasks)
    BY OwnedTasks DEF TypeOK
  <2>4. arrived' \in [Runs -> Seq(Tasks)]
    BY <1>3, <2>3 DEF Ended, TypeOK
  <2>5. QED
    BY <2>1, <2>2, <2>4
<1>4. /\ ok' \in [Calls -> BOOLEAN] /\ wins' \in [Tasks -> Nat]
      /\ arrived' \in [Runs -> Seq(Tasks)]
  <2>1. CASE \E to \in {"act", "fill"} : Goes(c, to)
    BY <2>1 DEF Goes, TypeOK
  <2>2. QED
    BY <1>3, <2>1, CallCases
<1>5. QED
  BY <1>1, <1>2, <1>4 DEF TypeOK

(* What a call knows and has done stays typed, and the disk stays a tree.   *)
LEMMA CallTyped ==
    ASSUME WellFormed, NEW c \in Calls, Step(c)
    PROVE  /\ Sound(disk')
           /\ seen' \in [Calls -> SUBSET Marks] /\ node' \in [Calls -> Marks \cup {"none"}]
           /\ base' \in [Calls -> SUBSET Marks] /\ lost' \in [Calls -> SUBSET Marks]
           /\ alone' \subseteq Runs
           /\ phase'[c] = "act" => cmd[c].op \notin Looking \cup DocxLooking
<1>1. /\ TypeOK /\ Sound(disk) /\ cmd[c] \in Command /\ cmd[c].path \in Paths
      /\ cmd[c].to \in Paths /\ Target(cmd[c]) \in Paths
      /\ c \in Marks
  BY DEF WellFormed, TypeOK, Sound, Disk, Command, Target, Marks
<1>2. /\ seen \in [Calls -> SUBSET Marks] /\ node \in [Calls -> Marks \cup {"none"}]
      /\ base \in [Calls -> SUBSET Marks] /\ lost \in [Calls -> SUBSET Marks]
      /\ alone \subseteq Runs
      /\ phase \in [Calls -> {"none", "queued", "act", "fill", "done"}]
  BY DEF WellFormed, TypeOK
<1>3. ASSUME NEW d, Sound(d)
      PROVE  \A p \in Paths : d[p].text \subseteq Marks /\ d[p].node \in Marks \cup {"none"}
  BY <1>3 DEF Sound, Disk
<1>4. ASSUME NEW success, Ended(c, success)
      PROVE  /\ seen' \in [Calls -> SUBSET Marks] /\ node' \in [Calls -> Marks \cup {"none"}]
             /\ base' \in [Calls -> SUBSET Marks]
             /\ phase'[c] = "done"
  BY <1>2, <1>4 DEF Ended
<1>5. CASE Check(c)
  <2>1. disk' = disk /\ alone' = alone /\ lost' = lost
    BY <1>5 DEF Check
  <2>2. CASE \E success \in BOOLEAN : Ended(c, success)
    BY <2>1, <2>2, <1>1, <1>2, <1>4
  <2>3. CASE Goes(c, "act")
    <3>1. /\ cmd[c].op \notin Looking \cup DocxLooking
          /\ seen' = [seen EXCEPT ![c] = IF Edits(cmd[c]) THEN Text(disk, cmd[c].path) ELSE {}]
          /\ base' = [base EXCEPT ![c] = Text(disk, Target(cmd[c])) \cap Settled]
          /\ node' = node
      BY <1>5, <2>3, <1>2, <1>4 DEF Check, Goes
    <3>2. Text(disk, cmd[c].path) \subseteq Marks /\ Text(disk, Target(cmd[c])) \subseteq Marks
      BY <1>1, <1>3 DEF Text
    <3>3. /\ seen' \in [Calls -> SUBSET Marks] /\ base' \in [Calls -> SUBSET Marks]
      BY <3>1, <3>2, <1>2
    <3>4. QED
      BY <2>1, <3>1, <3>3, <1>1, <1>2
  <2>4. QED
    BY <1>5, <2>2, <2>3 DEF Check
<1>6. CASE Git(c) \/ WebSearch(c) \/ Composio(c)
  BY <1>1, <1>2, <1>4, <1>6 DEF Git, WebSearch, Composio, Answered
<1>7. CASE Convert(c)
  <2> DEFINE p == cmd[c].to
  <2>1. \E success : Ended(c, success)
    BY <1>7 DEF Convert
  <2>2. alone' \subseteq alone /\ lost' = lost
    BY <1>7 DEF Convert, Changed
  <2>3. disk[p].kind # "dir" /\ HasParent(disk, p) => Sound([disk EXCEPT ![p] = File({c}, c)])
    <3>1. /\ File({c}, c) \in [kind : {"none", "dir", "file"}, text : SUBSET Marks,
                               node : Marks \cup {"none"}]
          /\ File({c}, c).kind = "file"
      BY <1>1 DEF File
    <3>2. QED
      BY <3>1, <1>1, PutIsSound, NothingBelow
  <2>4. \/ disk' = disk
        \/ /\ disk[p].kind # "dir" /\ HasParent(disk, p)
           /\ disk' = [disk EXCEPT ![p] = File({c}, c)]
    BY <1>7 DEF Convert, Changed
  <2>5. Sound(disk')
    BY <2>3, <2>4, <1>1
  <2>6. QED
    BY <2>1, <2>2, <2>5, <1>2, <1>4
<1>8. CASE Act(c)
  <2>1. CASE ~Works(cmd[c], disk)
    BY <1>8, <2>1, <1>1, <1>2, <1>4 DEF Act
  <2>2. CASE Works(cmd[c], disk)
    <3>1. /\ disk' = Worked(cmd[c], disk, c) /\ alone' \subseteq alone
          /\ lost' = [lost EXCEPT ![c] = base[c] \cap (AllText(disk) \ AllText(disk'))]
          /\ \/ /\ HasMore(cmd[c]) /\ Goes(c, "fill")
                /\ node' = [node EXCEPT ![c] = disk'[Target(cmd[c])].node]
                /\ seen' = IF cmd[c].op = "copy_file"
                           THEN [seen EXCEPT ![c] = Text(disk, cmd[c].path)] ELSE seen
                /\ base' = base
             \/ Ended(c, TRUE)
      BY <1>8, <2>2 DEF Act, Changed
    <3>2. cmd[c].op \in Changing
      BY <1>8, <1>1 DEF Act, Changing, WellFormed, LookersDoNotAct, Command
    <3>3. Sound(disk')
      BY <3>1, <3>2, <2>2, <1>1, WorkedIsSound
    <3>4. lost' \in [Calls -> SUBSET Marks]
      BY <3>1, <1>2
    <3>5. CASE Ended(c, TRUE)
      BY <3>1, <3>3, <3>4, <3>5, <1>2, <1>4
    <3>6. CASE Goes(c, "fill")
      <4>1. /\ node' = [node EXCEPT ![c] = disk'[Target(cmd[c])].node]
            /\ seen' = IF cmd[c].op = "copy_file"
                       THEN [seen EXCEPT ![c] = Text(disk, cmd[c].path)] ELSE seen
            /\ base' = base /\ phase'[c] = "fill"
        BY <3>1, <3>6, <1>2, <1>4 DEF Goes
      <4>2. disk'[Target(cmd[c])].node \in Marks \cup {"none"} /\ Text(disk, cmd[c].path) \subseteq Marks
        BY <1>1, <1>3, <3>3 DEF Text
      <4>3. QED
        BY <4>1, <4>2, <3>1, <3>3, <3>4, <1>2
    <3>7. QED
      BY <3>1, <3>5, <3>6
  <2>3. QED
    BY <2>1, <2>2
<1>9. CASE Fill(c)
  <2> DEFINE text == IF cmd[c].op = "copy_file" THEN seen[c] ELSE seen[c] \cup {c}
  <2>1. /\ disk' = Filled(disk, node[c], text) /\ alone' \subseteq alone
        /\ lost' = [lost EXCEPT ![c] = @ \ text] /\ Ended(c, TRUE)
    BY <1>9 DEF Fill, Changed
  <2>2. text \in SUBSET Marks /\ node[c] \in Marks \cup {"none"} /\ lost[c] \in SUBSET Marks
    BY <1>1, <1>2
  <2>3. Sound(disk')
    BY <2>1, <2>2, <1>1, FilledIsSound
  <2>4. lost' \in [Calls -> SUBSET Marks]
    BY <2>1, <2>2, <1>2
  <2>5. QED
    BY <2>1, <2>3, <2>4, <1>2, <1>4
<1>10. CASE RemoveDirectory(c)
  <2>1. /\ \E success : Ended(c, success)
        /\ lost' = lost /\ alone' \subseteq alone
        /\ \/ disk' = disk
           \/ /\ Emptied(disk, cmd[c].path)
              /\ disk' = [disk EXCEPT ![cmd[c].path] = Absent]
    BY <1>10 DEF RemoveDirectory, Changed
  <2>2. Sound(disk')
    BY <2>1, <1>1, DeletingIsSound
  <2>3. QED
    BY <2>1, <2>2, <1>2, <1>4
<1>11. QED
  BY <1>5, <1>6, <1>7, <1>8, <1>9, <1>10 DEF Step

(* The files a workspace starts with.                                       *)
LEMMA DisksAreSound ==
    ASSUME NEW d \in Disks
    PROVE  Sound(d) /\ NodesDiffer(d) /\ NodesOf(d) \subseteq Paths
<1>1. /\ d \in [Paths -> {Absent, Directory}
                         \cup {File(text, p) : text \in SUBSET Paths, p \in Paths}]
      /\ IsTree(d) /\ NodesDiffer(d)
  BY DisksAssumption DEF NodesDiffer
<1>2. ASSUME NEW p \in Paths
      PROVE  /\ d[p] \in [kind : {"none", "dir", "file"}, text : SUBSET Marks,
                          node : Marks \cup {"none"}]
             /\ d[p].kind # "file" => d[p].text = {}
             /\ d[p].kind = "file" => d[p].node \in Paths
  <2>1. d[p] \in {Absent, Directory} \cup {File(text, q) : text \in SUBSET Paths, q \in Paths}
    BY <1>1
  <2>2. CASE d[p] \in {Absent, Directory}
    BY <2>2 DEF Absent, Directory
  <2>3. CASE d[p] \in {File(text, q) : text \in SUBSET Paths, q \in Paths}
    <3>1. PICK text \in SUBSET Paths, q \in Paths : d[p] = File(text, q)
      BY <2>3
    <3>2. text \in SUBSET Marks /\ q \in Marks
      BY DEF Marks
    <3>3. QED
      BY <3>1, <3>2 DEF File
  <2>4. QED
    BY <2>1, <2>2, <2>3
<1>3. d \in Disk /\ TextOnlyInFiles(d)
  BY <1>1, <1>2 DEF Disk, TextOnlyInFiles, IsFile
<1>4. NodesOf(d) \subseteq Paths
  BY <1>2 DEF NodesOf, IsFile
<1>5. QED
  BY <1>1, <1>3, <1>4 DEF Sound

(* What the planner hands over.                                             *)
LEMMA InitTyped ==
    ASSUME Init
    PROVE  /\ prio \in [Tasks -> Nat] /\ cmd \in [Calls -> Command]
           /\ queue \in [Runs -> Seq(Tasks)]
           /\ \A r \in Runs : Members(queue[r]) \subseteq Owned(r)
           /\ status \in [Tasks -> {"none", "todo"}]
           /\ disk \in Disks
<1>1. PICK plan \in [Runs -> UNION {Plans[r] : r \in Runs}], ask \in [Requests -> Asked] :
         /\ \A r \in Runs : plan[r] \in Plans[r]
         /\ queue = [r \in Runs |-> SubSeq(Slots[r], 1, Len(plan[r]))]
         /\ LET Run(t) == CHOOSE r \in Runs : t \in Owned(r)
                Place(t) == CHOOSE i \in DOMAIN Slots[Run(t)] : Slots[Run(t)][i] = t
                IsPlanned(t) == Place(t) <= Len(plan[Run(t)])
                Given(t) == IF IsPlanned(t) THEN plan[Run(t)][Place(t)]
                            ELSE plan[Run(t)][1]
            IN  /\ prio = [t \in Tasks |-> Given(t).prio]
                /\ status = [t \in Tasks |-> IF IsPlanned(t) THEN "todo" ELSE "none"]
                /\ cmd = [c \in Calls |-> IF c \in Tasks THEN Given(c).cmd ELSE ask[c]]
  BY DEF Init
<1> DEFINE Run(t) == CHOOSE r \in Runs : t \in Owned(r)
           Place(t) == CHOOSE i \in DOMAIN Slots[Run(t)] : Slots[Run(t)][i] = t
           IsPlanned(t) == Place(t) <= Len(plan[Run(t)])
           Given(t) == IF IsPlanned(t) THEN plan[Run(t)][Place(t)] ELSE plan[Run(t)][1]
<1>2. /\ prio = [t \in Tasks |-> Given(t).prio]
      /\ status = [t \in Tasks |-> IF IsPlanned(t) THEN "todo" ELSE "none"]
      /\ cmd = [c \in Calls |-> IF c \in Tasks THEN Given(c).cmd ELSE ask[c]]
  BY <1>1
<1>3. ASSUME NEW r \in Runs
      PROVE  /\ Len(plan[r]) \in 1 .. Len(Slots[r])
             /\ \A i \in 1 .. Len(plan[r]) : plan[r][i] \in [cmd : Command, prio : Nat]
             /\ Slots[r] \in Seq(Tasks) /\ DOMAIN Slots[r] = 1 .. Len(Slots[r])
             /\ Len(Slots[r]) \in Nat
  <2>1. plan[r] \in Plans[r]
    BY <1>1
  <2>2. Slots[r] \in Seq(Tasks)
    BY ToolsAssumption
  <2>3. plan[r] \in Seq([cmd : Command, prio : Nat]) /\ Len(plan[r]) \in 1 .. Len(Slots[r])
    BY <2>1, PlansAssumption
  <2>4. \A i \in 1 .. Len(plan[r]) : plan[r][i] \in [cmd : Command, prio : Nat]
    <3> DEFINE S == [cmd : Command, prio : Nat]
    <3> HIDE DEF S
    <3>1. plan[r] \in Seq(S)
      BY <2>3 DEF S
    <3>2. \A i \in 1 .. Len(plan[r]) : plan[r][i] \in S
      BY <3>1
    <3>3. QED
      BY <3>2 DEF S
  <2>5. DOMAIN Slots[r] = 1 .. Len(Slots[r]) /\ Len(Slots[r]) \in Nat
    BY <2>2
  <2>6. QED
    BY <2>2, <2>3, <2>4, <2>5
<1>4. ASSUME NEW t \in Tasks
      PROVE  Given(t) \in [cmd : Command, prio : Nat]
  <2>1. Run(t) \in Runs /\ t \in Owned(Run(t))
    <3>1. \E r \in Runs : t \in Owned(r)
      BY OwnedTasks
    <3>2. QED
      BY <3>1
  <2> HIDE DEF Run
  <2>2. Place(t) \in DOMAIN Slots[Run(t)]
    <3>1. \E i \in DOMAIN Slots[Run(t)] : Slots[Run(t)][i] = t
      BY <2>1 DEF Owned
    <3>2. QED
      BY <3>1
  <2> HIDE DEF Place
  <2>3. Place(t) \in Nat /\ Place(t) >= 1 /\ Len(plan[Run(t)]) \in Nat /\ Len(plan[Run(t)]) >= 1
    BY <1>3, <2>1, <2>2
  <2>4. IsPlanned(t) => Place(t) \in 1 .. Len(plan[Run(t)])
    BY <2>3
  <2>5. QED
    BY <1>3, <2>1, <2>3, <2>4
<1> HIDE DEF Given, IsPlanned
<1>5. prio \in [Tasks -> Nat]
  BY <1>2, <1>4
<1>6. cmd \in [Calls -> Command]
  <2>1. \A c \in Requests : ask[c] \in Command
    BY ToolsAssumption
  <2>2. \A c \in Calls : c \in Tasks \/ c \in Requests
    BY DEF Calls
  <2>3. QED
    BY <1>2, <1>4, <2>1, <2>2
<1>7. \A r \in Runs : LET q == SubSeq(Slots[r], 1, Len(plan[r]))
                      IN  q \in Seq(Tasks) /\ Members(q) \subseteq Owned(r)
  <2>1. ASSUME NEW r \in Runs
        PROVE  LET q == SubSeq(Slots[r], 1, Len(plan[r]))
               IN  q \in Seq(Tasks) /\ Members(q) \subseteq Owned(r)
    <3> DEFINE q == SubSeq(Slots[r], 1, Len(plan[r]))
    <3>1. /\ q \in Seq(Tasks) /\ Len(q) = Len(plan[r])
          /\ \A i \in 1 .. Len(plan[r]) : q[i] = Slots[r][i]
      BY <1>3, SubSeqProperties
    <3> HIDE DEF q
    <3>2. DOMAIN q = 1 .. Len(plan[r])
      BY <3>1
    <3>3. Members(q) \subseteq Owned(r)
      <4>1. \A i \in DOMAIN q : i \in DOMAIN Slots[r] /\ q[i] = Slots[r][i]
        BY <1>3, <3>1, <3>2
      <4>2. QED
        BY <4>1 DEF Members, Owned
    <3>4. QED
      BY <3>1, <3>3 DEF q
  <2>2. QED
    BY <2>1
<1>8. QED
  BY <1>1, <1>2, <1>5, <1>6, <1>7 DEF Init

LEMMA InitWellFormed ==
    ASSUME Init
    PROVE  WellFormed
<1>1. /\ prio \in [Tasks -> Nat] /\ cmd \in [Calls -> Command]
      /\ queue \in [Runs -> Seq(Tasks)]
      /\ \A r \in Runs : Members(queue[r]) \subseteq Owned(r)
      /\ status \in [Tasks -> {"none", "todo"}]
      /\ Sound(disk)
  BY InitTyped, DisksAreSound
<1>2. <<>> \in Seq(Tasks) /\ Members(<<>>) = {}
  BY DEF Members
<1>3. TypeOK
  BY <1>1, <1>2 DEF Init, TypeOK, Sound, Disk
<1>4. QED
  BY <1>1, <1>2, <1>3 DEF Init, WellFormed, Sound, LookersDoNotAct, OwnTasks

(* Every step keeps the state well formed.                                  *)
LEMMA WellFormedStep ==
    ASSUME WellFormed, [Next]_vars
    PROVE  WellFormed'
<1>1. TypeOK /\ Sound(disk) /\ LookersDoNotAct /\ OwnTasks
  BY DEF WellFormed, TypeOK, Sound, Disk
<1>2. CASE \E c \in Calls : Step(c)
  <2>1. PICK c \in Calls : Step(c)
    BY <1>2
  <2>2. TypeOK' /\ TextOnlyInFiles(disk')
    BY <2>1, <1>1, BooksTyped, CallTyped DEF TypeOK, Sound, Disk
  <2>3. LookersDoNotAct'
    <3>1. /\ cmd' = cmd /\ \A e \in Calls : e # c => phase'[e] = phase[e]
          /\ phase'[c] = "act" => cmd[c].op \notin Looking \cup DocxLooking
      BY <2>1, <1>1, CallTyped, CallFrame DEF WellFormed, TypeOK
    <3>2. QED
      BY <3>1, <1>1 DEF LookersDoNotAct
  <2>4. OwnTasks'
    BY <2>1, <1>1, CallFrame DEF OwnTasks
  <2>5. QED
    BY <2>2, <2>3, <2>4 DEF WellFormed, TextOnlyInFiles
<1>3. CASE \E r \in Runs : Visit(r)
  <2>1. PICK r \in Runs : Visit(r)
    BY <1>3
  <2>2. PICK b : /\ IsBatch(r, b)
                 /\ batch' = [batch EXCEPT ![r] = b]
                 /\ at' = [at EXCEPT ![r] = "visit"]
                 /\ status' = [t \in Tasks |-> IF t \in Members(b) THEN "running"
                                               ELSE status[t]]
                 /\ phase' = [c \in Calls |-> IF c \in Members(b) THEN "queued"
                                              ELSE phase[c]]
                 /\ arrived' = [arrived EXCEPT ![r] = <<>>]
                 /\ alone' = alone \cup {r}
                 /\ UNCHANGED <<disk, abandoned, queue, prio, cmd, ok, seen, node,
                                repaired, base, lost, wins>>
    BY <2>1, <1>1, VisitCases
  <2>3. b \in Seq(Tasks) /\ Members(b) \subseteq Owned(r) /\ <<>> \in Seq(Tasks)
    BY <2>2, <1>1 DEF IsBatch, OwnTasks
  <2>4. TypeOK'
    BY <2>2, <2>3, <1>1 DEF TypeOK
  <2>5. LookersDoNotAct'
    BY <2>2, <1>1 DEF LookersDoNotAct
  <2>6. OwnTasks'
    BY <2>2, <2>3, <1>1 DEF OwnTasks, TypeOK
  <2>7. QED
    BY <2>2, <2>4, <2>5, <2>6 DEF WellFormed, TextOnlyInFiles
<1>4. CASE \E r \in Runs : Settle(r)
  <2>1. PICK r \in Runs : Settle(r)
    BY <1>4
  <2>2. /\ \E t, x : status' = [status EXCEPT ![t] = x] /\ x \in {"done", "failed"}
        /\ \E x \in {"free", "visit", "over"} : at' = [at EXCEPT ![r] = x]
        /\ UNCHANGED <<disk, abandoned, queue, prio, batch, arrived, cmd, phase, ok,
                       seen, node, repaired, base, lost, wins, alone>>
    BY <2>1 DEF Settle
  <2>3. /\ status' \in [Tasks -> {"none", "todo", "running", "done", "failed"}]
        /\ at' \in [Runs -> {"free", "visit", "over"}]
    <3>1. PICK t, x : status' = [status EXCEPT ![t] = x] /\ x \in {"done", "failed"}
      BY <2>2
    <3>2. status' \in [Tasks -> {"none", "todo", "running", "done", "failed"}]
      BY <3>1, <1>1 DEF TypeOK
    <3>3. QED
      BY <2>2, <3>2, <1>1 DEF TypeOK
  <2>4. TypeOK'
    BY <2>2, <2>3, <1>1 DEF TypeOK
  <2>5. QED
    BY <2>2, <2>4, <1>1 DEF WellFormed, TextOnlyInFiles, LookersDoNotAct, OwnTasks
<1>5. CASE \E r \in Runs : Repair(r)
  <2>1. PICK r \in Runs : Repair(r)
    BY <1>5
  <2>2. PICK i \in Unsettled(r), p \in RepairPaths :
          /\ [cmd[batch[r][i]] EXCEPT !.path = p] \in Command
          /\ cmd' = [cmd EXCEPT ![batch[r][i]].path = p]
          /\ phase' = [phase EXCEPT ![batch[r][i]] = "queued"]
          /\ lost' = [lost EXCEPT ![batch[r][i]] = {}]
          /\ repaired' = repaired \cup {batch[r][i]}
          /\ UNCHANGED <<disk, at, abandoned, queue, prio, status, batch, arrived, ok,
                         seen, node, base, wins, alone>>
    BY <2>1 DEF Repair
  <2> DEFINE t == batch[r][i]
  <2>3. t \in Tasks /\ t \in Calls
    BY <1>1, OwnedTasks DEF TypeOK, Unsettled
  <2>4. TypeOK'
    BY <2>2, <2>3, <1>1 DEF TypeOK
  <2>5. LookersDoNotAct'
    BY <2>2, <2>3, <1>1 DEF LookersDoNotAct, TypeOK
  <2>6. QED
    BY <2>2, <2>4, <2>5, <1>1 DEF WellFormed, TextOnlyInFiles, OwnTasks
<1>6. CASE \E r \in Runs : Abandon(r)
  <2>1. PICK r \in Runs : Abandon(r)
    BY <1>6
  <2>2. TypeOK'
    BY <2>1, <1>1 DEF Abandon, TypeOK
  <2>3. QED
    BY <2>1, <2>2, <1>1 DEF Abandon, WellFormed, TextOnlyInFiles, LookersDoNotAct, OwnTasks
<1>7. CASE UNCHANGED vars
  <2>1. TypeOK'
    BY <1>7, <1>1 DEF vars, TypeOK
  <2>2. QED
    BY <1>7, <2>1, <1>1 DEF vars, WellFormed, TextOnlyInFiles, LookersDoNotAct, OwnTasks
<1>8. QED
  BY <1>2, <1>3, <1>4, <1>5, <1>6, <1>7 DEF Next, Node

(* The state is well formed; what exists on the disk lies in directories    *)
(* that exist, whatever calls create, move and remove at the same time.     *)
THEOREM ToolsTypeCorrect == Safety => []TypeOK
<1>1. Init => WellFormed
  BY InitWellFormed
<1>2. WellFormed /\ [Next]_vars => WellFormed'
  BY WellFormedStep
<1>3. WellFormed => TypeOK
  BY DEF WellFormed
<1>4. QED
  BY <1>1, <1>2, <1>3, PTL DEF Safety

-----------------------------------------------------------------------------
(* A task's status is the result of its own calls.                          *)

(* What a task's status says of its last call and of how many of its calls  *)
(* have succeeded.                                                          *)
OutcomeFits(t) ==
    /\ status[t] \in {"none", "todo"} => phase[t] = "none" /\ wins[t] = 0
    /\ status[t] = "running" =>
         \/ phase[t] \in {"queued", "act", "fill"} /\ wins[t] = 0
         \/ phase[t] = "done" /\ wins[t] = (IF ok[t] THEN 1 ELSE 0)
    /\ status[t] = "done" => phase[t] = "done" /\ ok[t] /\ wins[t] = 1
    /\ status[t] = "failed" => phase[t] = "done" /\ wins[t] = 0
Outcomes == \A t \in Tasks : OutcomeFits(t)

(* What settling a task writes: the result of its own call.                 *)
LEMMA SettleCases ==
    ASSUME WellFormed, NEW r \in Runs, Settle(r)
    PROVE  /\ \E t \in Members(batch[r]) :
                /\ status[t] = "running" /\ phase[t] = "done"
                /\ status' = [status EXCEPT ![t] = IF ok[t] THEN "done" ELSE "failed"]
                /\ at'[r] # "visit" =>
                     \A u \in Members(batch[r]) : status[u] = "running" => u = t
           /\ \E x \in {"free", "visit", "over"} : at' = [at EXCEPT ![r] = x]
           /\ UNCHANGED <<disk, abandoned, queue, prio, batch, arrived, cmd, phase, ok,
                          seen, node, repaired, base, lost, wins, alone>>
<1>1. PICK i \in Unsettled(r) :
         LET t == batch[r][i]
         IN  /\ status' = [status EXCEPT ![t] = IF Result(r, i) THEN "done" ELSE "failed"]
             /\ at' = [at EXCEPT ![r] =
                         IF Unsettled(r) # {i} THEN "visit"
                         ELSE IF ~Result(r, i) \/ Todo(r) = {} \/ r \in abandoned
                         THEN "over" ELSE "free"]
  BY DEF Settle
<1> DEFINE t == batch[r][i]
<1>2. /\ t \in Members(batch[r]) /\ status[t] = "running"
      /\ \A u \in Members(batch[r]) : phase[u] = "done"
  BY DEF Settle, Unsettled, Members
<1>3. status' = [status EXCEPT ![t] = IF ok[t] THEN "done" ELSE "failed"]
  BY <1>1 DEF Result
<1>4. at'[r] # "visit" => Unsettled(r) = {i}
  BY <1>1 DEF WellFormed, TypeOK
<1>5. ASSUME at'[r] # "visit", NEW u \in Members(batch[r]), status[u] = "running"
      PROVE  u = t
  <2>1. PICK j \in DOMAIN batch[r] : u = batch[r][j]
    BY DEF Members
  <2>2. j \in Unsettled(r)
    BY <1>5, <2>1 DEF Unsettled
  <2>3. QED
    BY <1>4, <1>5, <2>1, <2>2
<1>6. \E x \in {"free", "visit", "over"} : at' = [at EXCEPT ![r] = x]
  BY <1>1
<1>7. UNCHANGED <<disk, abandoned, queue, prio, batch, arrived, cmd, phase, ok,
                  seen, node, repaired, base, lost, wins, alone>>
  BY DEF Settle
<1> HIDE DEF t
<1>8. QED
  BY <1>2, <1>3, <1>5, <1>6, <1>7

(* What repairing a task does: a failed call is queued again, with another  *)
(* path.                                                                    *)
LEMMA RepairCases ==
    ASSUME WellFormed, NEW r \in Runs, Repair(r)
    PROVE  /\ \A u \in Members(batch[r]) : phase[u] = "done"
           /\ \E t \in Members(batch[r]), p \in Paths :
                /\ t \in Owned(r) /\ t \in Tasks /\ t \in Calls
                /\ status[t] = "running" /\ ~ok[t]
                /\ cmd' = [cmd EXCEPT ![t] = [@ EXCEPT !.path = p]]
                /\ cmd'[t] \in Command /\ cmd'[t].op = cmd[t].op
                /\ phase' = [phase EXCEPT ![t] = "queued"]
                /\ lost' = [lost EXCEPT ![t] = {}]
                /\ repaired' = repaired \cup {t}
           /\ UNCHANGED <<disk, at, abandoned, queue, prio, status, batch, arrived, ok,
                          seen, node, base, wins, alone>>
<1>1. PICK i \in Unsettled(r), p \in RepairPaths :
         LET t == batch[r][i]
         IN  /\ ~Result(r, i)
             /\ [cmd[t] EXCEPT !.path = p] \in Command
             /\ cmd' = [cmd EXCEPT ![t].path = p]
             /\ phase' = [phase EXCEPT ![t] = "queued"]
             /\ lost' = [lost EXCEPT ![t] = {}]
             /\ repaired' = repaired \cup {t}
  BY DEF Repair
<1> DEFINE t == batch[r][i]
<1>2. t \in Members(batch[r]) /\ status[t] = "running" /\ ~ok[t]
  BY <1>1 DEF Unsettled, Members, Result
<1>3. t \in Owned(r) /\ t \in Tasks /\ t \in Calls
  BY <1>2, OwnedTasks DEF WellFormed, OwnTasks
<1>4. cmd \in [Calls -> Command] /\ cmd[t] \in Command
  BY <1>3 DEF WellFormed, TypeOK
<1>5. /\ cmd' = [cmd EXCEPT ![t] = [@ EXCEPT !.path = p]]
      /\ cmd'[t] = [cmd[t] EXCEPT !.path = p]
  BY <1>1, <1>3, <1>4
<1>6. [cmd[t] EXCEPT !.path = p].op = cmd[t].op
  BY <1>4 DEF Command
<1>7. p \in Paths
  BY ToolsAssumption
<1>8. /\ \A u \in Members(batch[r]) : phase[u] = "done"
      /\ UNCHANGED <<disk, at, abandoned, queue, prio, status, batch, arrived, ok,
                     seen, node, base, wins, alone>>
  BY DEF Repair
<1>9. /\ cmd'[t] \in Command /\ cmd'[t].op = cmd[t].op
      /\ phase' = [phase EXCEPT ![t] = "queued"]
      /\ lost' = [lost EXCEPT ![t] = {}]
      /\ repaired' = repaired \cup {t}
  BY <1>1, <1>5, <1>6
<1> HIDE DEF t
<1>10. QED
  BY <1>2, <1>3, <1>5, <1>7, <1>8, <1>9

LEMMA OutcomesStep ==
    ASSUME WellFormed, Outcomes, [Next]_vars
    PROVE  Outcomes'
<1>1. /\ status \in [Tasks -> {"none", "todo", "running", "done", "failed"}]
      /\ phase \in [Calls -> {"none", "queued", "act", "fill", "done"}]
      /\ ok \in [Calls -> BOOLEAN] /\ wins \in [Tasks -> Nat]
      /\ Tasks \subseteq Calls
  BY OwnedTasks DEF WellFormed, TypeOK
<1> SUFFICES ASSUME NEW t \in Tasks PROVE OutcomeFits(t)'
  BY DEF Outcomes
<1>2. OutcomeFits(t) /\ t \in Calls
  BY <1>1 DEF Outcomes
<1>3. CASE \E c \in Calls : Step(c)
  <2>1. PICK c \in Calls : Step(c)
    BY <1>3
  <2>2. status' = status /\ phase[c] \in {"queued", "act", "fill"}
    BY <2>1, CallCases, CallFrame DEF WellFormed
  <2>3. CASE \E to \in {"act", "fill"} : Goes(c, to)
    <3>1. /\ ok' = ok /\ wins' = wins
          /\ \E to \in {"act", "fill"} : phase' = [phase EXCEPT ![c] = to]
      BY <2>3 DEF Goes
    <3>2. QED
      BY <3>1, <2>2, <1>1, <1>2 DEF OutcomeFits
  <2>4. CASE \E success \in BOOLEAN : Ended(c, success)
    <3>1. PICK success \in BOOLEAN : Ended(c, success)
      BY <2>4
    <3>2. /\ phase' = [phase EXCEPT ![c] = "done"] /\ ok' = [ok EXCEPT ![c] = success]
          /\ wins' = IF c \in Tasks /\ success THEN [wins EXCEPT ![c] = @ + 1] ELSE wins
      BY <3>1 DEF Ended
    <3>3. CASE t = c
      <4>1. status[t] = "running" /\ wins[t] = 0
        <5>1. status[t] \in {"none", "todo", "running", "done", "failed"}
          BY <1>1
        <5>2. QED
          BY <5>1, <3>3, <2>2, <1>2 DEF OutcomeFits
      <4>2. phase'[t] = "done" /\ ok'[t] = success /\ wins'[t] = IF success THEN 1 ELSE 0
        BY <3>2, <3>3, <4>1, <1>1
      <4>3. QED
        BY <4>1, <4>2, <2>2 DEF OutcomeFits
    <3>4. CASE t # c
      <4>1. phase'[t] = phase[t] /\ ok'[t] = ok[t] /\ wins'[t] = wins[t]
        BY <3>2, <3>4, <1>1, <1>2
      <4>2. QED
        BY <4>1, <2>2, <1>2 DEF OutcomeFits
    <3>5. QED
      BY <3>3, <3>4
  <2>5. QED
    BY <2>1, <2>3, <2>4, CallCases
<1>4. CASE \E r \in Runs : Visit(r)
  <2>1. PICK r \in Runs : Visit(r)
    BY <1>4
  <2>2. PICK b : /\ IsBatch(r, b)
                 /\ status' = [u \in Tasks |-> IF u \in Members(b) THEN "running"
                                               ELSE status[u]]
                 /\ phase' = [c \in Calls |-> IF c \in Members(b) THEN "queued"
                                              ELSE phase[c]]
                 /\ UNCHANGED <<ok, wins>>
    BY <2>1, VisitCases DEF WellFormed
  <2>3. t \in Members(b) => status[t] = "todo"
    BY <2>2 DEF IsBatch
  <2>4. QED
    BY <2>2, <2>3, <1>1, <1>2 DEF OutcomeFits
<1>5. CASE \E r \in Runs : Settle(r)
  <2>1. PICK r \in Runs : Settle(r)
    BY <1>5
  <2>2. PICK u \in Members(batch[r]) :
          /\ status[u] = "running" /\ phase[u] = "done"
          /\ status' = [status EXCEPT ![u] = IF ok[u] THEN "done" ELSE "failed"]
    BY <2>1, SettleCases
  <2>3. UNCHANGED <<phase, ok, wins>>
    BY <2>1, SettleCases
  <2>4. QED
    BY <2>2, <2>3, <1>1, <1>2 DEF OutcomeFits
<1>6. CASE \E r \in Runs : Repair(r)
  <2>1. PICK r \in Runs : Repair(r)
    BY <1>6
  <2>2. PICK u \in Members(batch[r]) :
          /\ status[u] = "running" /\ ~ok[u] /\ phase[u] = "done"
          /\ phase' = [phase EXCEPT ![u] = "queued"]
    BY <2>1, RepairCases
  <2>3. UNCHANGED <<status, ok, wins>>
    BY <2>1, RepairCases
  <2>4. QED
    BY <2>2, <2>3, <1>1, <1>2 DEF OutcomeFits
<1>7. CASE (\E r \in Runs : Abandon(r)) \/ UNCHANGED vars
  <2>1. UNCHANGED <<status, phase, ok, wins>>
    BY <1>7 DEF Abandon, vars
  <2>2. QED
    BY <2>1, <1>2 DEF OutcomeFits
<1>8. QED
  BY <1>3, <1>4, <1>5, <1>6, <1>7 DEF Next, Node

LEMMA InitOutcomes ==
    ASSUME Init
    PROVE  Outcomes
<1>1. status \in [Tasks -> {"none", "todo"}] /\ Tasks \subseteq Calls
  BY InitTyped, OwnedTasks
<1>2. QED
  BY <1>1 DEF Init, Outcomes, OutcomeFits

(* Within a visit a task whose tool has succeeded is never handed to it     *)
(* again, by the pool or by the repair, and a task is DONE exactly if a     *)
(* call of its own succeeded, in whatever order the threads finish.         *)
THEOREM StatusesAreTheirOwn == Safety => []StatusIsOwnResult
<1>1. Init => WellFormed /\ Outcomes
  BY InitWellFormed, InitOutcomes
<1>2. WellFormed /\ Outcomes /\ [Next]_vars => (WellFormed /\ Outcomes)'
  BY WellFormedStep, OutcomesStep
<1>3. WellFormed /\ Outcomes => StatusIsOwnResult
  BY DEF WellFormed, TypeOK, Outcomes, OutcomeFits, StatusIsOwnResult
<1>4. QED
  BY <1>1, <1>2, <1>3, PTL DEF Safety

-----------------------------------------------------------------------------
(* Gentle calls keep text.                                                  *)

(* Such a call has found its target missing when it checked.                *)
FindsNothing(c) == Creates(c) \/ c.op \in {"rename_file", "workspace/create-folder"}

(* What a call has removed so far, and what it holds in its hands to write  *)
(* back.                                                                    *)
LossFits(c) ==
    /\ phase[c] \in {"none", "queued", "act"} => lost[c] = {}
    /\ phase[c] = "act" /\ FindsNothing(cmd[c]) => base[c] = {}
    /\ phase[c] = "act" /\ Edits(cmd[c]) => base[c] \subseteq seen[c]
    /\ phase[c] = "fill" => HasMore(cmd[c])
    /\ phase[c] = "fill" /\ Creates(cmd[c]) => lost[c] = {}
    /\ phase[c] = "fill" /\ Edits(cmd[c]) => lost[c] \subseteq seen[c]
    /\ phase[c] = "done" /\ ok[c] /\ Gentle(cmd[c]) => lost[c] = {}
Losses == \A c \in Calls : LossFits(c)

(* The operations do not overlap.                                           *)
LEMMA KindsOfOperation ==
    ASSUME NEW c
    PROVE  /\ Creates(c) => ~Edits(c) /\ c.op # "copy_file"
           /\ Edits(c) => c.op # "copy_file"
           /\ c.op \in {"append_file", "rename_file", "mkdir", "workspace/create-folder"}
                => ~HasMore(c) /\ ~Edits(c) /\ ~Creates(c)
           /\ Creates(c) \/ Edits(c) => Target(c) = c.path /\ HasMore(c) /\ Gentle(c)
           /\ c.op = "rename_file" => Target(c) = c.to
           /\ c.op = "workspace/create-folder" => Target(c) = c.path
           /\ c.op \in Remote \cup {"convert_to_pdf", "delete_directory"} => ~Gentle(c)
BY DEF Creates, Edits, HasMore, Rewriting, DocxRewriting, Overwriting, Target, Remote, Gentle

(* A check of such a call has found nothing at its target.                  *)
LEMMA NothingFound ==
    ASSUME NEW d, TextOnlyInFiles(d), NEW c \in Command, FindsNothing(c), Passes(c, d)
    PROVE  d[Target(c)].text = {}
<1>1. c.path \in Paths /\ c.to \in Paths
  BY DEF Command
<1>2. CASE Creates(c)
  <2>1. ~Exists(d, c.path)
    BY <1>2 DEF Passes, MayCreateFile, Creates, Rewriting, DocxRewriting, DocxLooking
  <2>2. QED
    BY <1>1, <1>2, <2>1, KindsOfOperation DEF Exists, TextOnlyInFiles, IsFile
<1>3. CASE c.op = "workspace/create-folder"
  <2>2. ~Exists(d, c.path)
    BY <1>3 DEF Passes, MayCreateFolder, Creates, Rewriting, DocxRewriting, DocxLooking
  <2>3. QED
    BY <1>1, <1>3, <2>2, KindsOfOperation DEF Exists, TextOnlyInFiles, IsFile
<1>4. CASE c.op = "rename_file"
  <2>2. ~Exists(d, c.to)
    BY <1>4 DEF Passes, MayRename, Creates, Rewriting, DocxRewriting, DocxLooking
  <2>3. QED
    BY <1>1, <1>4, <2>2, KindsOfOperation DEF Exists, TextOnlyInFiles, IsFile
<1>5. QED
  BY <1>2, <1>3, <1>4 DEF FindsNothing

(* One step of a call keeps what it says of itself true.                    *)
LEMMA LossOwnStep ==
    ASSUME WellFormed, NEW c \in Calls, LossFits(c), Step(c)
    PROVE  LossFits(c)'
<1>1. /\ phase \in [Calls -> {"none", "queued", "act", "fill", "done"}]
      /\ ok \in [Calls -> BOOLEAN] /\ seen \in [Calls -> SUBSET Marks]
      /\ base \in [Calls -> SUBSET Marks] /\ lost \in [Calls -> SUBSET Marks]
      /\ cmd[c] \in Command /\ TextOnlyInFiles(disk) /\ Sound(disk)
      /\ cmd' = cmd
  BY CallFrame DEF WellFormed, TypeOK, Sound, Disk
<1>2. ASSUME NEW success \in BOOLEAN, Ended(c, success)
      PROVE  phase'[c] = "done" /\ ok'[c] = success
  BY <1>1, <1>2 DEF Ended
<1>3. ASSUME NEW to \in {"act", "fill"}, Goes(c, to)
      PROVE  phase'[c] = to
  BY <1>1, <1>3 DEF Goes
<1>4. CASE Check(c)
  <2>1. phase[c] = "queued" /\ lost[c] = {} /\ lost' = lost
    BY <1>4 DEF Check, LossFits
  <2>2. CASE \E success \in BOOLEAN : Ended(c, success)
    BY <1>1, <1>2, <2>1, <2>2 DEF LossFits
  <2>3. CASE Goes(c, "act")
    <3>1. /\ Passes(cmd[c], disk)
          /\ seen'[c] = IF Edits(cmd[c]) THEN Text(disk, cmd[c].path) ELSE {}
          /\ base'[c] = Text(disk, Target(cmd[c])) \cap Settled
      BY <1>4, <2>3, <1>1, <1>2, <1>3 DEF Check
    <3>2. phase'[c] = "act"
      BY <2>3, <1>3
    <3>3. FindsNothing(cmd[c]) => base'[c] = {}
      BY <3>1, <1>1, NothingFound DEF Text
    <3>4. Edits(cmd[c]) => base'[c] \subseteq seen'[c]
      BY <3>1, KindsOfOperation
    <3>5. QED
      BY <2>1, <3>2, <3>3, <3>4, <1>1 DEF LossFits
  <2>4. QED
    BY <1>4, <2>2, <2>3 DEF Check
<1>5. CASE Git(c) \/ WebSearch(c) \/ Composio(c) \/ Convert(c)
  <2>1. phase[c] = "act" /\ lost' = lost /\ \E success \in BOOLEAN : Ended(c, success)
    BY <1>5 DEF Git, WebSearch, Composio, Convert, Answered, Exists
  <2>2. QED
    BY <1>1, <1>2, <2>1 DEF LossFits
<1>6. CASE Act(c)
  <2>1. CASE ~Works(cmd[c], disk)
    <3>1. Ended(c, FALSE) /\ lost' = lost
      BY <1>6, <2>1 DEF Act
    <3>2. QED
      BY <1>1, <1>2, <3>1 DEF LossFits
  <2>2. CASE Works(cmd[c], disk)
    <3>1. /\ phase[c] = "act" /\ disk' = Worked(cmd[c], disk, c)
          /\ lost' = [lost EXCEPT ![c] = base[c] \cap (AllText(disk) \ AllText(disk'))]
          /\ IF HasMore(cmd[c])
             THEN /\ Goes(c, "fill")
                  /\ seen' = IF cmd[c].op = "copy_file"
                             THEN [seen EXCEPT ![c] = Text(disk, cmd[c].path)] ELSE seen
             ELSE Ended(c, TRUE)
      BY <1>6, <2>2 DEF Act, Changed
    <3>2. lost'[c] = base[c] \cap (AllText(disk) \ AllText(disk'))
      BY <3>1, <1>1
    <3>3. FindsNothing(cmd[c]) => lost'[c] = {}
      BY <3>1, <3>2 DEF LossFits
    <3>4. CASE HasMore(cmd[c])
      <4>1. phase'[c] = "fill" /\ (cmd[c].op # "copy_file" => seen' = seen)
        BY <3>1, <3>4, <1>3
      <4>2. Edits(cmd[c]) => lost'[c] \subseteq seen'[c]
        BY <4>1, <3>1, <3>2, KindsOfOperation DEF LossFits
      <4>3. Creates(cmd[c]) => lost'[c] = {}
        BY <3>3 DEF FindsNothing
      <4>4. QED
        BY <4>1, <4>2, <4>3, <3>4, <1>1 DEF LossFits
    <3>5. CASE ~HasMore(cmd[c])
      <4>1. phase'[c] = "done"
        BY <3>1, <3>5, <1>2
      <4>2. cmd[c].op \in {"append_file", "mkdir", "workspace/create-folder"} => lost'[c] = {}
        <5>1. cmd[c].op \in {"append_file", "mkdir", "workspace/create-folder"}
                => AllText(disk) \subseteq AllText(disk')
          BY <3>1, <2>2, <1>1, GentleWorkKeepsText
        <5>2. QED
          BY <5>1, <3>2
      <4>3. Gentle(cmd[c]) => lost'[c] = {}
        BY <4>2, <3>3, <3>5, KindsOfOperation DEF Gentle, FindsNothing
      <4>4. QED
        BY <4>1, <4>3, <1>1 DEF LossFits
    <3>6. QED
      BY <3>4, <3>5
  <2>3. QED
    BY <2>1, <2>2
<1>7. CASE Fill(c)
  <2> DEFINE text == IF cmd[c].op = "copy_file" THEN seen[c] ELSE seen[c] \cup {c}
  <2>1. phase[c] = "fill" /\ lost' = [lost EXCEPT ![c] = @ \ text] /\ Ended(c, TRUE)
    BY <1>7 DEF Fill
  <2>2. lost'[c] = lost[c] \ text /\ phase'[c] = "done"
    BY <2>1, <1>1, <1>2
  <2>3. Creates(cmd[c]) \/ Edits(cmd[c]) => lost'[c] = {}
    BY <2>1, <2>2, KindsOfOperation DEF LossFits
  <2>4. Gentle(cmd[c]) => lost'[c] = {}
    BY <2>1, <2>3, KindsOfOperation DEF LossFits, Gentle
  <2>5. QED
    BY <2>2, <2>4, <1>1 DEF LossFits
<1>8. CASE RemoveDirectory(c)
  <2>1. \E success \in BOOLEAN : Ended(c, success)
    BY <1>8 DEF RemoveDirectory
  <2>2. ~Gentle(cmd[c])
    BY <1>8, KindsOfOperation DEF RemoveDirectory
  <2>3. QED
    BY <2>1, <2>2, <1>1, <1>2 DEF LossFits
<1>9. QED
  BY <1>4, <1>5, <1>6, <1>7, <1>8 DEF Step

(* Nor does another call's step touch it.                                   *)
LEMMA LossOtherStep ==
    ASSUME WellFormed, NEW c \in Calls, Step(c), NEW e \in Calls, e # c, LossFits(e)
    PROVE  LossFits(e)'
<1>1. /\ phase \in [Calls -> {"none", "queued", "act", "fill", "done"}]
      /\ ok \in [Calls -> BOOLEAN] /\ seen \in [Calls -> SUBSET Marks]
      /\ base \in [Calls -> SUBSET Marks] /\ lost \in [Calls -> SUBSET Marks]
  BY DEF WellFormed, TypeOK
<1>2. cmd' = cmd /\ phase'[e] = phase[e]
  BY <1>1, CallFrame DEF WellFormed
<1>3. ok'[e] = ok[e]
  BY <1>1, CallCases DEF Ended, Goes
<1>4. ASSUME NEW success, Ended(c, success)
      PROVE  seen'[e] = seen[e] /\ base'[e] = base[e]
  BY <1>1, <1>4 DEF Ended
<1>5. seen'[e] = seen[e] /\ base'[e] = base[e] /\ lost'[e] = lost[e]
  <2>1. CASE Check(c)
    <3>1. lost' = lost
      BY <2>1 DEF Check
    <3>2. \/ \E success \in BOOLEAN : Ended(c, success)
          \/ \E x, y : seen' = [seen EXCEPT ![c] = x] /\ base' = [base EXCEPT ![c] = y]
      BY <2>1 DEF Check
    <3>3. QED
      BY <3>1, <3>2, <1>1, <1>4
  <2>2. CASE Git(c) \/ WebSearch(c) \/ Composio(c) \/ Convert(c) \/ RemoveDirectory(c)
    <3>1. lost' = lost /\ \E success : Ended(c, success)
      BY <2>2 DEF Git, WebSearch, Composio, Convert, RemoveDirectory, Answered
    <3>2. QED
      BY <3>1, <1>4
  <2>3. CASE Act(c)
    <3>1. /\ lost' = lost \/ \E x : lost' = [lost EXCEPT ![c] = x]
          /\ \/ \E success : Ended(c, success)
             \/ /\ base' = base
                /\ seen' = seen \/ \E x : seen' = [seen EXCEPT ![c] = x]
      BY <2>3 DEF Act
    <3>2. QED
      BY <3>1, <1>1, <1>4
  <2>4. CASE Fill(c)
    <3>1. (\E x : lost' = [lost EXCEPT ![c] = x]) /\ \E success : Ended(c, success)
      BY <2>4 DEF Fill
    <3>2. QED
      BY <3>1, <1>1, <1>4
  <2>5. QED
    BY <2>1, <2>2, <2>3, <2>4 DEF Step
<1>6. QED
  BY <1>2, <1>3, <1>5 DEF LossFits

LEMMA LossesStep ==
    ASSUME WellFormed, Outcomes, Losses, [Next]_vars
    PROVE  Losses'
<1>1. /\ phase \in [Calls -> {"none", "queued", "act", "fill", "done"}]
      /\ lost \in [Calls -> SUBSET Marks] /\ cmd \in [Calls -> Command]
  BY DEF WellFormed, TypeOK
<1> SUFFICES ASSUME NEW c \in Calls PROVE LossFits(c)'
  BY DEF Losses
<1>2. LossFits(c)
  BY DEF Losses
<1>3. CASE \E e \in Calls : Step(e)
  BY <1>2, <1>3, LossOwnStep, LossOtherStep
<1>4. CASE \E r \in Runs : Visit(r)
  <2>1. PICK r \in Runs : Visit(r)
    BY <1>4
  <2>2. PICK b : /\ IsBatch(r, b)
                 /\ phase' = [e \in Calls |-> IF e \in Members(b) THEN "queued"
                                              ELSE phase[e]]
                 /\ UNCHANGED <<cmd, ok, seen, base, lost>>
    BY <2>1, VisitCases DEF WellFormed
  <2>3. \A t \in Members(b) : t \in Tasks
    BY <2>2, SeqMembers DEF IsBatch
  <2>4. c \in Members(b) => phase[c] = "none"
    BY <2>2, <2>3 DEF IsBatch, Outcomes, OutcomeFits
  <2>5. QED
    BY <2>2, <2>4, <1>2 DEF LossFits
<1>5. CASE \E r \in Runs : Settle(r)
  <2>1. UNCHANGED <<cmd, phase, ok, seen, base, lost>>
    BY <1>5, SettleCases
  <2>2. QED
    BY <2>1, <1>2 DEF LossFits
<1>6. CASE \E r \in Runs : Repair(r)
  <2>1. PICK r \in Runs : Repair(r)
    BY <1>6
  <2>2. PICK t \in Members(batch[r]), p \in Paths :
          /\ t \in Calls
          /\ cmd' = [cmd EXCEPT ![t] = [@ EXCEPT !.path = p]]
          /\ phase' = [phase EXCEPT ![t] = "queued"]
          /\ lost' = [lost EXCEPT ![t] = {}]
    BY <2>1, RepairCases
  <2>3. UNCHANGED <<ok, seen, base>>
    BY <2>1, RepairCases
  <2>4. CASE c = t
    <3>1. phase'[c] = "queued" /\ lost'[c] = {}
      BY <2>2, <2>4, <1>1
    <3>2. QED
      BY <3>1 DEF LossFits
  <2>5. CASE c # t
    <3>1. phase'[c] = phase[c] /\ lost'[c] = lost[c] /\ cmd'[c] = cmd[c]
      BY <2>2, <2>5, <1>1
    <3>2. QED
      BY <3>1, <2>3, <1>2 DEF LossFits
  <2>6. QED
    BY <2>4, <2>5
<1>7. CASE (\E r \in Runs : Abandon(r)) \/ UNCHANGED vars
  <2>1. UNCHANGED <<cmd, phase, ok, seen, base, lost>>
    BY <1>7 DEF Abandon, vars
  <2>2. QED
    BY <2>1, <1>2 DEF LossFits
<1>8. QED
  BY <1>3, <1>4, <1>5, <1>6, <1>7 DEF Next, Node

(* A call that promises not to overwrite (create, append, edit, rename) and *)
(* reports success has not removed any text that stood in its file, and was *)
(* acknowledged, when it began: an edit puts back all it has read, the      *)
(* others found no text to remove.                                          *)
THEOREM TextSurvivesGentleCalls == Safety => []GentleCallsKeepText
<1> DEFINE I == WellFormed /\ Outcomes /\ Losses
<1>1. Init => I
  <2>1. Init => Losses
    BY DEF Init, Losses, LossFits
  <2>2. QED
    BY <2>1, InitWellFormed, InitOutcomes
<1>2. I /\ [Next]_vars => I'
  BY WellFormedStep, OutcomesStep, LossesStep
<1>3. I => GentleCallsKeepText
  BY DEF Losses, LossFits, GentleCallsKeepText
<1>4. QED
  BY <1>1, <1>2, <1>3, PTL DEF Safety

-----------------------------------------------------------------------------
(* The writes of a batch stand.                                             *)

(* A call that has changed the disk, or read it with success.               *)
Touched(c) == \/ phase[c] = "fill"
              \/ phase[c] = "done" /\ ok[c]

(* A new file belongs to a call that has not failed.                        *)
Nodes ==
    /\ NodesDiffer(disk)
    /\ \A c \in Calls : c \in NodesOf(disk) =>
         Touched(c) /\ cmd[c].op # "delete_directory"

(* A running task is in the batch of its run's visit.                       *)
InBatch ==
    \A r \in Runs : \A t \in Owned(r) :
      status[t] = "running" => at[r] = "visit" /\ t \in Members(batch[r])

(* Two tasks of a batch collide if they write or read one file.             *)
BatchRule ==
    \A r \in Runs : \A t, u \in Members(batch[r]) : t # u =>
      /\ cmd[t].op \in Batchable \cup {"search"}
      /\ /\ cmd[t].op \in Batchable /\ cmd[u].op \in Batchable
         /\ cmd[t].path = cmd[u].path
         => Collide(t, u)

(* The file that a task is about to fill is the one at its path.            *)
HoldsFile(t) ==
    Writes(t) /\ phase[t] = "fill" =>
      IsFile(disk, cmd[t].path) /\ disk[cmd[t].path].node = node[t]
(* The text of a task whose call has succeeded is in its file, if nothing   *)
(* that collides with it has touched the disk.                              *)
HasWritten(r, t) ==
    /\ Writes(t) /\ phase[t] = "done" /\ ok[t]
    /\ \A u \in Members(batch[r]) : Collide(t, u) => ~Touched(u)
    => IsFile(disk, cmd[t].path) /\ t \in Text(disk, cmd[t].path)
WritesKept ==
    \A r \in alone : \A t \in Members(batch[r]) : HoldsFile(t) /\ HasWritten(r, t)

(* The invariant: all of it together.                                       *)
Inv == /\ WellFormed /\ Outcomes /\ Losses
       /\ Nodes /\ InBatch /\ BatchRule /\ WritesKept

(* Of the other calls a step changes neither how far they are nor what they *)
(* hold; and a run is alone only if nobody else has changed the disk.       *)
LEMMA OthersStay ==
    ASSUME WellFormed, NEW c \in Calls, Step(c)
    PROVE  /\ \A e \in Calls : e # c => /\ phase'[e] = phase[e] /\ ok'[e] = ok[e]
                                        /\ node'[e] = node[e]
           /\ alone' \subseteq alone
           /\ \A r \in alone' : c \in Owned(r) \/ disk' = disk
<1>1. /\ phase \in [Calls -> {"none", "queued", "act", "fill", "done"}]
      /\ ok \in [Calls -> BOOLEAN] /\ node \in [Calls -> Marks \cup {"none"}]
  BY DEF WellFormed, TypeOK
<1>2. /\ \/ \E to \in {"act", "fill"} : phase' = [phase EXCEPT ![c] = to] /\ ok' = ok
         \/ \E s : phase' = [phase EXCEPT ![c] = "done"] /\ ok' = [ok EXCEPT ![c] = s]
      /\ node' = node \/ \E n : node' = [node EXCEPT ![c] = n]
  BY DEF Step, Check, Git, WebSearch, Composio, Answered, Convert, Act, Fill,
         RemoveDirectory, Ended, Goes
<1>3. \A e \in Calls : e # c => /\ phase'[e] = phase[e] /\ ok'[e] = ok[e]
                                /\ node'[e] = node[e]
  BY <1>1, <1>2
<1>4. \/ disk' = disk /\ alone' = alone
      \/ \E d : Changed(c, d)
  BY DEF Step, Check, Git, WebSearch, Composio, Answered, Convert, Act, Fill,
         RemoveDirectory
<1>5. QED
  BY <1>3, <1>4 DEF Changed

(* How a call of a batch changes the disk: not at all; or it opens its      *)
(* file; or it fills the file that it has opened.                           *)
LEMMA BatchCallCases ==
    ASSUME WellFormed, Losses, NEW c \in Calls, Step(c),
           cmd[c].op \in Batchable \cup {"search"}
    PROVE  \/ /\ disk' = disk /\ phase[c] \in {"queued", "act"}
              /\ \/ phase'[c] = "act"
                 \/ phase'[c] = "done" /\ (Writes(c) => ~ok'[c])
           \/ /\ Writes(c) /\ phase[c] = "act" /\ Works(cmd[c], disk)
              /\ disk' = Worked(cmd[c], disk, c)
              /\ \/ cmd[c].op = "append_file" /\ phase'[c] = "done" /\ ok'[c]
                 \/ phase'[c] = "fill" /\ node'[c] = disk'[cmd[c].path].node
           \/ /\ Writes(c) /\ phase[c] = "fill" /\ phase'[c] = "done" /\ ok'[c]
              /\ disk' = Filled(disk, node[c], seen[c] \cup {c})
<1>1. /\ phase \in [Calls -> {"none", "queued", "act", "fill", "done"}]
      /\ ok \in [Calls -> BOOLEAN] /\ node \in [Calls -> Marks \cup {"none"}]
  BY DEF WellFormed, TypeOK
<1>2. ASSUME NEW s, Ended(c, s)
      PROVE  phase'[c] = "done" /\ ok'[c] = s
  BY <1>1, <1>2 DEF Ended
<1>3. ASSUME NEW to, Goes(c, to)
      PROVE  phase'[c] = to
  BY <1>1, <1>3 DEF Goes
<1>4. /\ Writes(c) => cmd[c].op \notin Looking \cup DocxLooking
      /\ cmd[c].op \notin {"git", "composio", "convert_to_pdf", "delete_directory", "copy_file"}
      /\ ~Writes(c) /\ cmd[c].op # "search" => cmd[c].op \in Looking
      /\ Writes(c) => Target(cmd[c]) = cmd[c].path /\ (HasMore(cmd[c]) <=> cmd[c].op # "append_file")
      /\ ~Writes(c) => ~HasMore(cmd[c])
      /\ cmd[c].op = "search" => ~Writes(c)
  BY DEF Writes, ParallelWrites, ParallelReads, Batchable, Looking, DocxLooking, Target,
         HasMore, Overwriting, Creates, Edits, Rewriting, DocxRewriting
<1>5. CASE Check(c)
  <2>1. disk' = disk /\ phase[c] = "queued"
    BY <1>5 DEF Check
  <2>2. \/ Ended(c, FALSE)
        \/ cmd[c].op \in Looking \cup DocxLooking /\ Ended(c, TRUE)
        \/ Goes(c, "act")
    BY <1>5 DEF Check
  <2>3. QED
    BY <2>1, <2>2, <1>2, <1>3, <1>4
<1>6. CASE Git(c) \/ WebSearch(c) \/ Composio(c)
  BY <1>2, <1>4, <1>6 DEF Git, WebSearch, Composio, Answered
<1>7. CASE Act(c)
  <2>1. phase[c] = "act" /\ cmd[c].op \notin Looking /\ cmd[c].op # "search"
    BY <1>7 DEF Act, Remote, WellFormed, LookersDoNotAct
  <2>2. Writes(c)
    BY <2>1, <1>4
  <2>3. CASE ~Works(cmd[c], disk)
    BY <1>2, <1>7, <2>1, <2>3 DEF Act
  <2>4. CASE Works(cmd[c], disk)
    <3>1. /\ disk' = Worked(cmd[c], disk, c)
          /\ \/ /\ HasMore(cmd[c]) /\ Goes(c, "fill")
                /\ node' = [node EXCEPT ![c] = disk'[Target(cmd[c])].node]
             \/ ~HasMore(cmd[c]) /\ Ended(c, TRUE)
      BY <1>7, <2>4 DEF Act, Changed
    <3>2. QED
      BY <3>1, <2>1, <2>2, <2>4, <1>1, <1>2, <1>3, <1>4
  <2>5. QED
    BY <2>3, <2>4
<1>8. CASE Fill(c)
  <2>1. phase[c] = "fill" /\ Ended(c, TRUE) /\ disk' = Filled(disk, node[c], seen[c] \cup {c})
    BY <1>4, <1>8 DEF Fill, Changed
  <2>2. HasMore(cmd[c])
    BY <2>1 DEF Losses, LossFits
  <2>3. QED
    BY <2>1, <2>2, <1>2, <1>4
<1>9. ~Convert(c) /\ ~RemoveDirectory(c)
  BY <1>4 DEF Convert, RemoveDirectory
<1>10. QED
  BY <1>5, <1>6, <1>7, <1>8, <1>9 DEF Step

(* A call's step makes no file but its own.                                 *)
LEMMA NodesCallStep ==
    ASSUME WellFormed, Losses, Nodes, NEW c \in Calls, Step(c)
    PROVE  Nodes'
<1>1. /\ phase \in [Calls -> {"none", "queued", "act", "fill", "done"}]
      /\ ok \in [Calls -> BOOLEAN] /\ cmd[c] \in Command /\ Sound(disk) /\ disk \in Disk
      /\ cmd' = cmd /\ cmd[c].path \in Paths /\ cmd[c].to \in Paths
  BY CallFrame DEF WellFormed, TypeOK, Sound, Disk, Command
<1>2. ASSUME NEW s, Ended(c, s)
      PROVE  phase'[c] = "done" /\ ok'[c] = s
  BY <1>1, <1>2 DEF Ended
<1>3. phase[c] \in {"queued", "act"} => c \notin NodesOf(disk)
  BY DEF Nodes, Touched
<1>4. cmd[c].op = "delete_directory" => c \notin NodesOf(disk)
  BY DEF Nodes
<1>5. SUFFICES /\ NodesDiffer(disk') /\ NodesOf(disk') \subseteq NodesOf(disk) \cup {c}
               /\ c \in NodesOf(disk') => Touched(c)' /\ cmd[c].op # "delete_directory"
  <2>1. \A e \in Calls : e # c => (Touched(e) <=> Touched(e)')
    BY OthersStay DEF Touched
  <2>2. NodesDiffer(disk)' /\ NodesOf(disk)' \subseteq NodesOf(disk) \cup {c}
    BY <1>5 DEF NodesDiffer, NodesOf
  <2>3. \A e \in Calls : e \in NodesOf(disk') => Touched(e)' /\ cmd[e].op # "delete_directory"
    BY <1>5, <2>1 DEF Nodes
  <2>4. QED
    BY <2>2, <2>3, <1>1 DEF Nodes, NodesOf
<1>6. CASE Check(c) \/ Git(c) \/ WebSearch(c) \/ Composio(c)
  <2>1. disk' = disk /\ phase[c] \in {"queued", "act"}
    BY <1>6 DEF Check, Git, WebSearch, Composio, Answered
  <2>2. QED
    BY <2>1, <1>3 DEF Nodes
<1>7. CASE Convert(c)
  <2> DEFINE p == cmd[c].to
  <2>1. phase[c] = "act" /\ cmd[c].op # "delete_directory"
    BY <1>7 DEF Convert
  <2>2. CASE disk' = disk
    BY <2>1, <2>2, <1>3 DEF Nodes
  <2>3. CASE disk' = [disk EXCEPT ![p] = File({c}, c)] /\ Ended(c, TRUE)
    <3>1. /\ \A q \in Paths : q # p => disk'[q] = disk[q]
          /\ IsFile(disk', p) /\ disk'[p].node = c
      BY <2>3, <1>1 DEF Disk, IsFile, File
    <3>2. \A q \in Paths : IsFile(disk, q) => disk[q].node # c
      BY <2>1, <1>3 DEF NodesOf
    <3>3. NodesDiffer(disk')
      BY <3>1, <3>2 DEF Nodes, NodesDiffer, IsFile
    <3>4. NodesOf(disk') \subseteq NodesOf(disk) \cup {c}
      <4>1. \A q \in Paths : IsFile(disk', q) =>
              disk'[q].node = c \/ (IsFile(disk, q) /\ disk'[q].node = disk[q].node)
        BY <3>1 DEF IsFile
      <4>2. QED
        BY <4>1 DEF NodesOf
    <3>5. QED
      BY <3>3, <3>4, <2>1, <2>3, <1>2 DEF Touched
  <2>4. QED
    BY <1>7, <2>2, <2>3 DEF Convert, Changed
<1>8. CASE Act(c)
  <2>1. phase[c] = "act" /\ c \notin NodesOf(disk)
    BY <1>3, <1>8 DEF Act
  <2>2. CASE ~Works(cmd[c], disk)
    BY <1>8, <2>1, <2>2 DEF Act, Nodes
  <2>3. CASE Works(cmd[c], disk)
    <3>1. /\ disk' = Worked(cmd[c], disk, c)
          /\ Goes(c, "fill") \/ Ended(c, TRUE)
      BY <1>8, <2>3 DEF Act, Changed
    <3>2. Touched(c)'
      BY <3>1, <1>1, <1>2 DEF Goes, Touched
    <3>3. cmd[c].op \in Changing
      BY <1>8, <1>1 DEF Act, Changing, WellFormed, LookersDoNotAct, Command
    <3>4. /\ NodesDiffer(disk') /\ NodesOf(disk') \subseteq NodesOf(disk) \cup {c}
          /\ cmd[c].op = "delete_directory" => NodesOf(disk') \subseteq NodesOf(disk)
      BY <3>1, <3>3, <2>1, <2>3, <1>1, WorkedKeepsNodes DEF Nodes
    <3>5. QED
      BY <3>2, <3>4, <2>1
  <2>4. QED
    BY <2>2, <2>3
<1>9. CASE Fill(c)
  <2>1. /\ \E text : disk' = Filled(disk, node[c], text)
        /\ Ended(c, TRUE) /\ cmd[c].op # "delete_directory"
    BY <1>9 DEF Fill, Changed
  <2>2. PICK text : disk' = Filled(disk, node[c], text)
    BY <2>1
  <2>3. \A p \in Paths : /\ IsFile(disk', p) <=> IsFile(disk, p)
                         /\ IsFile(disk, p) => disk'[p].node = disk[p].node
    BY <2>2 DEF Filled, IsFile, File
  <2>4. NodesDiffer(disk') /\ NodesOf(disk') = NodesOf(disk)
    BY <2>3 DEF Nodes, NodesDiffer, NodesOf
  <2>5. QED
    BY <2>1, <2>4, <1>2 DEF Touched
<1>10. CASE RemoveDirectory(c)
  <2>1. /\ cmd[c].op = "delete_directory"
        /\ disk' = disk \/ disk' = [disk EXCEPT ![cmd[c].path] = Absent]
    BY <1>10 DEF RemoveDirectory, Changed
  <2>2. \A p \in Paths : IsFile(disk', p) => disk'[p] = disk[p]
    BY <2>1, <1>1 DEF Disk, IsFile, Absent
  <2>3. NodesDiffer(disk') /\ NodesOf(disk') \subseteq NodesOf(disk)
    BY <2>2, FewerNodes DEF Nodes
  <2>4. QED
    BY <2>1, <2>3, <1>4
<1>11. QED
  BY <1>6, <1>7, <1>8, <1>9, <1>10 DEF Step

LEMMA NodesStep ==
    ASSUME WellFormed, Outcomes, Losses, Nodes, [Next]_vars
    PROVE  Nodes'
<1>1. /\ phase \in [Calls -> {"none", "queued", "act", "fill", "done"}]
      /\ ok \in [Calls -> BOOLEAN] /\ cmd \in [Calls -> Command]
      /\ Tasks \subseteq Calls
  BY OwnedTasks DEF WellFormed, TypeOK
<1>2. CASE \E c \in Calls : Step(c)
  BY <1>2, NodesCallStep
<1>3. CASE \E r \in Runs : Visit(r)
  <2>1. PICK r \in Runs : Visit(r)
    BY <1>3
  <2>2. PICK b : /\ IsBatch(r, b)
                 /\ phase' = [e \in Calls |-> IF e \in Members(b) THEN "queued"
                                              ELSE phase[e]]
                 /\ UNCHANGED <<disk, cmd, ok>>
    BY <2>1, VisitCases DEF WellFormed
  <2>3. \A t \in Members(b) : t \in Calls /\ phase[t] = "none"
    BY <2>2, <1>1, SeqMembers DEF IsBatch, Outcomes, OutcomeFits
  <2>4. \A c \in Calls : Touched(c) => Touched(c)'
    BY <2>2, <2>3 DEF Touched
  <2>5. QED
    BY <2>2, <2>4 DEF Nodes, NodesDiffer, NodesOf
<1>4. CASE \E r \in Runs : Repair(r)
  <2>1. PICK r \in Runs : Repair(r)
    BY <1>4
  <2>2. PICK t \in Members(batch[r]), p \in Paths :
          /\ t \in Calls /\ ~ok[t] /\ phase[t] = "done"
          /\ cmd' = [cmd EXCEPT ![t] = [@ EXCEPT !.path = p]]
          /\ phase' = [phase EXCEPT ![t] = "queued"]
    BY <2>1, RepairCases
  <2>3. UNCHANGED <<disk, ok>>
    BY <2>1, RepairCases
  <2>4. ~Touched(t)
    BY <2>2 DEF Touched
  <2>5. \A c \in Calls : c # t => cmd'[c] = cmd[c] /\ (Touched(c) => Touched(c)')
    BY <2>2, <2>3, <1>1 DEF Touched
  <2>6. QED
    BY <2>3, <2>4, <2>5 DEF Nodes, NodesDiffer, NodesOf
<1>5. CASE (\E r \in Runs : Settle(r) \/ Abandon(r)) \/ UNCHANGED vars
  <2>1. UNCHANGED <<disk, cmd, phase, ok>>
    BY <1>5, SettleCases DEF Abandon, vars
  <2>2. QED
    BY <2>1 DEF Nodes, NodesDiffer, NodesOf, Touched
<1>6. QED
  BY <1>2, <1>3, <1>4, <1>5 DEF Next, Node

LEMMA InBatchStep ==
    ASSUME WellFormed, InBatch, [Next]_vars
    PROVE  InBatch'
<1>1. /\ at \in [Runs -> {"free", "visit", "over"}] /\ batch \in [Runs -> Seq(Tasks)]
      /\ status \in [Tasks -> {"none", "todo", "running", "done", "failed"}]
  BY DEF WellFormed, TypeOK
<1> SUFFICES ASSUME NEW s \in Runs, NEW t \in Owned(s), status'[t] = "running"
             PROVE  at'[s] = "visit" /\ t \in Members(batch'[s])
  BY DEF InBatch, Owned, Members
<1>2. t \in Tasks /\ (status[t] = "running" => at[s] = "visit" /\ t \in Members(batch[s]))
  BY OwnedTasks DEF InBatch
<1>3. CASE \E c \in Calls : Step(c)
  BY <1>2, <1>3, CallFrame DEF WellFormed
<1>4. CASE \E r \in Runs : Visit(r)
  <2>1. PICK r \in Runs : Visit(r)
    BY <1>4
  <2>2. PICK b : /\ IsBatch(r, b)
                 /\ batch' = [batch EXCEPT ![r] = b]
                 /\ at' = [at EXCEPT ![r] = "visit"]
                 /\ status' = [u \in Tasks |-> IF u \in Members(b) THEN "running"
                                               ELSE status[u]]
                 /\ at[r] = "free"
    BY <2>1, VisitCases DEF WellFormed
  <2>3. t \in Members(b) => s = r
    BY <2>2, OwnedTasks DEF IsBatch, WellFormed, OwnTasks
  <2>4. CASE t \in Members(b)
    BY <2>2, <2>3, <2>4, <1>1
  <2>5. CASE t \notin Members(b)
    <3>1. status[t] = "running"
      BY <2>2, <2>5, <1>2
    <3>2. s # r
      BY <3>1, <2>2, <1>2
    <3>3. QED
      BY <3>1, <3>2, <2>2, <1>1, <1>2
  <2>6. QED
    BY <2>4, <2>5
<1>5. CASE \E r \in Runs : Settle(r)
  <2>1. PICK r \in Runs : Settle(r)
    BY <1>5
  <2>2. PICK u \in Members(batch[r]) :
          /\ status' = [status EXCEPT ![u] = IF ok[u] THEN "done" ELSE "failed"]
          /\ at'[r] # "visit" =>
               \A v \in Members(batch[r]) : status[v] = "running" => v = u
    BY <2>1, SettleCases
  <2>3. batch' = batch /\ \E x \in {"free", "visit", "over"} : at' = [at EXCEPT ![r] = x]
    BY <2>1, SettleCases
  <2>4. t # u /\ status[t] = "running"
    BY <2>2, <1>1, <1>2
  <2>5. s = r => at'[r] = "visit"
    BY <2>2, <2>4, <1>2
  <2>6. QED
    BY <2>3, <2>4, <2>5, <1>1, <1>2
<1>6. CASE \E r \in Runs : Repair(r)
  BY <1>2, <1>6, RepairCases
<1>7. CASE (\E r \in Runs : Abandon(r)) \/ UNCHANGED vars
  <2>1. status' = status /\ batch' = batch
    BY <1>7 DEF Abandon, vars
  <2>2. at[s] = "visit" => at'[s] = "visit"
    BY <1>1, <1>7 DEF Abandon, vars
  <2>3. QED
    BY <2>1, <2>2, <1>2
<1>8. QED
  BY <1>3, <1>4, <1>5, <1>6, <1>7 DEF Next, Node

LEMMA BatchRuleStep ==
    ASSUME WellFormed, BatchRule, [Next]_vars
    PROVE  BatchRule'
<1>1. batch \in [Runs -> Seq(Tasks)] /\ cmd \in [Calls -> Command]
  BY DEF WellFormed, TypeOK
<1>2. ASSUME UNCHANGED <<batch, cmd, repaired>>
      PROVE  BatchRule'
  BY <1>2 DEF BatchRule, Collide, Members
<1>3. CASE (\E c \in Calls : Step(c)) \/ (\E r \in Runs : Settle(r) \/ Abandon(r))
           \/ UNCHANGED vars
  <2>1. UNCHANGED <<batch, cmd, repaired>>
    BY <1>3, CallFrame, SettleCases DEF WellFormed, Abandon, vars
  <2>2. QED
    BY <2>1, <1>2
<1>4. CASE \E r \in Runs : Visit(r)
  <2>1. PICK r \in Runs : Visit(r)
    BY <1>4
  <2>2. PICK b : /\ IsBatch(r, b)
                 /\ batch' = [batch EXCEPT ![r] = b]
                 /\ UNCHANGED <<cmd, repaired>>
    BY <2>1, VisitCases DEF WellFormed
  <2>3. ASSUME NEW s \in Runs, NEW t \in Members(batch'[s]), NEW u \in Members(batch'[s]),
               t # u
        PROVE  /\ cmd[t].op \in Batchable \cup {"search"}
               /\ /\ cmd[t].op \in Batchable /\ cmd[u].op \in Batchable
                  /\ cmd[t].path = cmd[u].path
                  => Collide(t, u)
    <3>1. CASE s = r
      BY <3>1, <2>2, <2>3, <1>1 DEF IsBatch, Collide
    <3>2. CASE s # r
      BY <3>2, <2>2, <2>3, <1>1 DEF BatchRule
    <3>3. QED
      BY <3>1, <3>2
  <2>4. QED
    BY <2>2, <2>3 DEF BatchRule, Collide, Members
<1>5. CASE \E r \in Runs : Repair(r)
  <2>1. PICK r \in Runs : Repair(r)
    BY <1>5
  <2>2. PICK e \in Members(batch[r]), p \in Paths :
          /\ e \in Calls
          /\ cmd' = [cmd EXCEPT ![e] = [@ EXCEPT !.path = p]]
          /\ cmd'[e].op = cmd[e].op
          /\ repaired' = repaired \cup {e}
    BY <2>1, RepairCases
  <2>3. batch' = batch
    BY <2>1, RepairCases
  <2>4. \A c \in Calls : c # e => cmd'[c] = cmd[c]
    BY <2>2, <1>1
  <2>5. \A s \in Runs : Members(batch[s]) \subseteq Calls
    BY <1>1, SeqMembers, OwnedTasks
  <2>6. ASSUME NEW s \in Runs, NEW t \in Members(batch[s]), NEW u \in Members(batch[s]),
               t # u
        PROVE  /\ cmd'[t].op \in Batchable \cup {"search"}
               /\ /\ cmd'[t].op \in Batchable /\ cmd'[u].op \in Batchable
                  /\ cmd'[t].path = cmd'[u].path
                  => Collide(t, u)'
    <3>1. cmd'[t].op = cmd[t].op /\ cmd'[u].op = cmd[u].op
      BY <2>2, <2>4, <2>5, <2>6
    <3>2. CASE e \in {t, u}
      BY <3>1, <3>2, <2>2, <2>6 DEF BatchRule, Collide
    <3>3. CASE e \notin {t, u}
      BY <3>3, <2>2, <2>4, <2>5, <2>6 DEF BatchRule, Collide
    <3>4. QED
      BY <3>2, <3>3
  <2>7. QED
    BY <2>3, <2>6 DEF BatchRule, Members
<1>6. QED
  BY <1>3, <1>4, <1>5 DEF Next, Node

(* The writes of a visit stay while its own calls work, and nobody else's   *)
(* call is counted.                                                         *)
LEMMA WritesKeptCall ==
    ASSUME Inv, NEW c \in Calls, Step(c), NEW r \in alone', NEW t \in Members(batch[r])
    PROVE  HoldsFile(t)' /\ HasWritten(r, t)'
<1>1. /\ phase \in [Calls -> {"none", "queued", "act", "fill", "done"}]
      /\ cmd \in [Calls -> Command] /\ Sound(disk)
      /\ cmd' = cmd /\ batch' = batch /\ repaired' = repaired
      /\ alone \subseteq Runs /\ batch \in [Runs -> Seq(Tasks)]
  BY CallFrame DEF Inv, WellFormed, TypeOK, Sound, Disk
<1>2. r \in alone /\ r \in Runs
  BY <1>1, OthersStay DEF Inv
<1>3. Members(batch[r]) \subseteq Calls /\ t \in Tasks /\ t \in Owned(r)
  BY <1>1, <1>2, SeqMembers, OwnedTasks DEF Inv, WellFormed, OwnTasks
<1>4. HoldsFile(t) /\ HasWritten(r, t)
  BY <1>2 DEF Inv, WritesKept
<1>5. cmd[t] \in Command /\ cmd[t].path \in Paths
  BY <1>1, <1>3 DEF Command
<1>6. \A e \in Calls : e # c => /\ phase'[e] = phase[e] /\ ok'[e] = ok[e]
                                /\ node'[e] = node[e]
  BY OthersStay DEF Inv
<1>7. \A x, y : Collide(x, y)' <=> Collide(x, y)
  BY <1>1 DEF Collide
<1>8. CASE c \notin Owned(r)
  <2>1. disk' = disk
    BY <1>8, OthersStay DEF Inv
  <2>2. \A u \in Members(batch[r]) : u # c
    BY <1>2, <1>8 DEF Inv, WellFormed, OwnTasks
  <2>3. \A u \in Members(batch[r]) : Touched(u)' <=> Touched(u)
    BY <1>3, <1>6, <2>2 DEF Touched
  <2>4. phase'[t] = phase[t] /\ ok'[t] = ok[t] /\ node'[t] = node[t]
    BY <1>3, <1>6, <2>2
  <2>5. HoldsFile(t)'
    BY <1>1, <1>4, <2>1, <2>4 DEF HoldsFile, Writes, IsFile
  <2>6. HasWritten(r, t)'
    BY <1>1, <1>4, <1>7, <2>1, <2>3, <2>4 DEF HasWritten, Writes, IsFile, Text
  <2>7. QED
    BY <2>5, <2>6
<1>9. CASE c \in Owned(r)
  <2>1. c \in Members(batch[r])
    <3>1. c \in Tasks /\ phase[c] \in {"queued", "act", "fill"}
      BY <1>2, <1>9, CallCases, OwnedTasks
    <3>2. status[c] = "running"
      <4>1. status[c] \in {"none", "todo", "running", "done", "failed"}
        BY <3>1 DEF Inv, WellFormed, TypeOK
      <4>2. OutcomeFits(c)
        BY <3>1 DEF Inv, Outcomes
      <4>3. QED
        BY <3>1, <4>1, <4>2 DEF OutcomeFits
    <3>3. QED
      BY <3>2, <1>2, <1>9 DEF Inv, InBatch
  <2>2. CASE c = t
    <3>1. CASE ~Writes(t)
      BY <3>1, <1>1 DEF HoldsFile, HasWritten, Writes
    <3>2. CASE Writes(t)
      <4>1. cmd[c].op \in Batchable \cup {"search"} /\ cmd[c].op \in ParallelWrites
        BY <2>2, <3>2 DEF Writes, Batchable
      <4>2. \/ phase'[c] = "act"
            \/ phase'[c] = "done" /\ ~ok'[c]
            \/ /\ Works(cmd[c], disk) /\ disk' = Worked(cmd[c], disk, c)
               /\ \/ cmd[c].op = "append_file" /\ phase'[c] = "done"
                  \/ phase'[c] = "fill" /\ node'[c] = disk'[cmd[c].path].node
            \/ /\ phase[c] = "fill" /\ phase'[c] = "done"
               /\ disk' = Filled(disk, node[c], seen[c] \cup {c})
        BY <4>1, <2>2, <3>2, BatchCallCases DEF Inv
      <4>3. CASE phase'[c] = "act" \/ (phase'[c] = "done" /\ ~ok'[c])
        BY <4>3, <2>2 DEF HoldsFile, HasWritten
      <4>4. CASE /\ Works(cmd[c], disk) /\ disk' = Worked(cmd[c], disk, c)
                 /\ \/ cmd[c].op = "append_file" /\ phase'[c] = "done"
                    \/ phase'[c] = "fill" /\ node'[c] = disk'[cmd[c].path].node
        <5>1. /\ IsFile(disk', cmd[c].path)
              /\ cmd[c].op = "append_file" => c \in disk'[cmd[c].path].text
          BY <4>1, <4>4, <2>2, <1>1, <1>5, WriteEffect
        <5>2. QED
          BY <5>1, <4>4, <2>2, <1>1 DEF HoldsFile, HasWritten, Text, IsFile
      <4>5. CASE /\ phase[c] = "fill" /\ phase'[c] = "done"
                 /\ disk' = Filled(disk, node[c], seen[c] \cup {c})
        <5>1. IsFile(disk, cmd[c].path) /\ disk[cmd[c].path].node = node[c]
          BY <4>5, <2>2, <3>2, <1>4 DEF HoldsFile
        <5>2. disk'[cmd[c].path] = File(seen[c] \cup {c}, node[c])
          BY <4>5, <5>1, <2>2, <1>5 DEF Filled
        <5>3. QED
          BY <5>2, <4>5, <2>2, <1>1 DEF File, IsFile, HoldsFile, HasWritten, Text
      <4>6. QED
        BY <4>2, <4>3, <4>4, <4>5
    <3>3. QED
      BY <3>1, <3>2
  <2>3. CASE c # t
    <3>1. phase'[t] = phase[t] /\ ok'[t] = ok[t] /\ node'[t] = node[t] /\ t \in Calls
      BY <1>3, <1>6, <2>3
    <3>2. /\ cmd[c].op \in Batchable \cup {"search"}
          /\ /\ cmd[t].op \in Batchable /\ cmd[c].op \in Batchable
             /\ cmd[t].path = cmd[c].path
             => Collide(t, c)
      BY <1>2, <2>1, <2>3 DEF Inv, BatchRule
    <3>3. cmd[c] \in Command /\ cmd[c].path \in Paths
      BY <1>1 DEF Command
    <3>4. Writes(c) /\ Writes(t) /\ ~Collide(t, c) => cmd[t].path # cmd[c].path
      BY <3>2 DEF Writes, Batchable
    <3>5. CASE disk' = disk /\ phase[c] \in {"queued", "act"}
      <4>1. \A u \in Members(batch[r]) : Touched(u) => Touched(u)'
        BY <1>3, <1>6, <3>5 DEF Touched
      <4>2. HoldsFile(t)'
        BY <1>1, <1>4, <3>1, <3>5 DEF HoldsFile, Writes, IsFile
      <4>3. HasWritten(r, t)'
        BY <1>1, <1>4, <1>7, <3>1, <3>5, <4>1 DEF HasWritten, Writes, IsFile, Text
      <4>4. QED
        BY <4>2, <4>3
    <3>6. CASE /\ Writes(c) /\ phase[c] = "act" /\ Works(cmd[c], disk)
               /\ disk' = Worked(cmd[c], disk, c)
               /\ Touched(c)'
      <4>1. /\ \A q \in Paths : IsFile(disk, q) /\ q # cmd[c].path => disk'[q] = disk[q]
            /\ IsFile(disk', cmd[c].path)
            /\ IsFile(disk, cmd[c].path) =>
                 disk'[cmd[c].path].node = disk[cmd[c].path].node
        BY <3>3, <3>6, <1>1, WriteEffect DEF Writes
      <4>2. \A u \in Members(batch[r]) : Touched(u) => Touched(u)'
        BY <1>3, <1>6, <3>6 DEF Touched
      <4>3. HoldsFile(t)'
        BY <1>1, <1>4, <1>5, <3>1, <4>1 DEF HoldsFile, Writes, IsFile
      <4>4. ASSUME Writes(t), phase[t] = "done", ok[t],
                   \A u \in Members(batch[r]) : Collide(t, u) => ~Touched(u)'
            PROVE  IsFile(disk', cmd[t].path) /\ t \in Text(disk', cmd[t].path)
        <5>1. cmd[t].path # cmd[c].path
          BY <4>4, <3>4, <3>6, <2>1
        <5>2. IsFile(disk, cmd[t].path) /\ t \in Text(disk, cmd[t].path)
          BY <4>2, <4>4, <1>4 DEF HasWritten
        <5>3. QED
          BY <5>1, <5>2, <4>1, <1>5 DEF IsFile, Text
      <4>5. HasWritten(r, t)'
        BY <4>4, <1>1, <1>7, <3>1 DEF HasWritten, Writes, Text, IsFile
      <4>6. QED
        BY <4>3, <4>5
    <3>7. CASE /\ Writes(c) /\ phase[c] = "fill" /\ Touched(c)'
               /\ disk' = Filled(disk, node[c], seen[c] \cup {c})
      <4>1. /\ \A q \in Paths : IsFile(disk, q) /\ disk[q].node # node[c] => disk'[q] = disk[q]
            /\ \A q \in Paths : IsFile(disk, q) =>
                 IsFile(disk', q) /\ disk'[q].node = disk[q].node
        BY <3>7 DEF Filled, IsFile, File
      <4>2. \A u \in Members(batch[r]) : Touched(u) => Touched(u)'
        BY <1>3, <1>6, <3>7 DEF Touched
      <4>3. HoldsFile(t)'
        BY <1>1, <1>4, <1>5, <3>1, <4>1 DEF HoldsFile, Writes, IsFile
      <4>4. ASSUME Writes(t), phase[t] = "done", ok[t],
                   \A u \in Members(batch[r]) : Collide(t, u) => ~Touched(u)'
            PROVE  IsFile(disk', cmd[t].path) /\ t \in Text(disk', cmd[t].path)
        <5>1. cmd[t].path # cmd[c].path
          BY <4>4, <3>4, <3>7, <2>1
        <5>2. IsFile(disk, cmd[t].path) /\ t \in Text(disk, cmd[t].path)
          BY <4>2, <4>4, <1>4 DEF HasWritten
        <5>3. IsFile(disk, cmd[c].path) /\ disk[cmd[c].path].node = node[c]
          BY <3>7, <1>2, <2>1 DEF Inv, WritesKept, HoldsFile
        <5>4. disk[cmd[t].path].node # node[c]
          BY <5>1, <5>2, <5>3, <1>5, <3>3 DEF Inv, Nodes, NodesDiffer
        <5>5. QED
          BY <5>2, <5>4, <4>1, <1>5 DEF IsFile, Text
      <4>5. HasWritten(r, t)'
        BY <4>4, <1>1, <1>7, <3>1 DEF HasWritten, Writes, Text, IsFile
      <4>6. QED
        BY <4>3, <4>5
    <3>8. QED
      BY <3>2, <3>5, <3>6, <3>7, BatchCallCases DEF Inv, Touched
  <2>4. QED
    BY <2>2, <2>3
<1>10. QED
  BY <1>8, <1>9

LEMMA WritesKeptStep ==
    ASSUME Inv, [Next]_vars
    PROVE  WritesKept'
<1>1. /\ phase \in [Calls -> {"none", "queued", "act", "fill", "done"}]
      /\ cmd \in [Calls -> Command] /\ batch \in [Runs -> Seq(Tasks)]
      /\ alone \subseteq Runs /\ at \in [Runs -> {"free", "visit", "over"}]
  BY DEF Inv, WellFormed, TypeOK
<1>2. \A r \in Runs : Members(batch[r]) \subseteq Calls
  BY <1>1, SeqMembers, OwnedTasks
<1>3. CASE \E c \in Calls : Step(c)
  <2>1. PICK c \in Calls : Step(c)
    BY <1>3
  <2>2. batch' = batch
    BY <2>1, CallFrame DEF Inv, WellFormed
  <2>3. \A r \in alone' : \A t \in Members(batch[r]) : HoldsFile(t)' /\ HasWritten(r, t)'
    BY <2>1, WritesKeptCall
  <2>4. QED
    BY <2>2, <2>3 DEF WritesKept, Members
<1>4. CASE \E r \in Runs : Visit(r)
  <2>1. PICK r \in Runs : Visit(r)
    BY <1>4
  <2>2. PICK b : /\ IsBatch(r, b)
                 /\ batch' = [batch EXCEPT ![r] = b]
                 /\ phase' = [c \in Calls |-> IF c \in Members(b) THEN "queued"
                                              ELSE phase[c]]
                 /\ alone' = alone \cup {r}
                 /\ UNCHANGED <<disk, cmd, ok, node, repaired>>
    BY <2>1, VisitCases DEF Inv, WellFormed
  <2>3. Members(b) \subseteq Calls /\ Members(b) \subseteq Owned(r)
    BY <2>2, SeqMembers, OwnedTasks DEF IsBatch, Inv, WellFormed, OwnTasks
  <2>4. ASSUME NEW s \in alone', NEW t \in Members(batch'[s])
        PROVE  HoldsFile(t)' /\ HasWritten(s, t)'
    <3>1. CASE s = r
      <4>1. phase'[t] = "queued"
        BY <3>1, <2>2, <2>3, <2>4, <1>1
      <4>2. QED
        BY <4>1 DEF HoldsFile, HasWritten
    <3>2. CASE s # r
      <4>1. s \in alone /\ s \in Runs /\ batch'[s] = batch[s] /\ t \in Members(batch[s])
        BY <3>2, <2>2, <2>4, <1>1
      <4>2. HoldsFile(t) /\ HasWritten(s, t)
        BY <4>1 DEF Inv, WritesKept
      <4>3. \A u \in Members(batch[s]) : phase'[u] = phase[u]
        BY <4>1, <3>2, <2>2, <2>3, <1>2, OwnedTasks DEF Inv, WellFormed, OwnTasks
      <4>4. HoldsFile(t)'
        BY <4>1, <4>2, <4>3, <2>2 DEF HoldsFile, Writes, IsFile
      <4>5. \A u \in Members(batch[s]) : Touched(u)' <=> Touched(u)
        BY <4>3, <2>2 DEF Touched
      <4>6. HasWritten(s, t)'
        BY <4>1, <4>2, <4>3, <4>5, <2>2 DEF HasWritten, Writes, IsFile, Text, Collide, Members
      <4>7. QED
        BY <4>4, <4>6
    <3>3. QED
      BY <3>1, <3>2
  <2>5. QED
    BY <2>4 DEF WritesKept, Members
<1>5. CASE \E r \in Runs : Repair(r)
  <2>1. PICK r \in Runs : Repair(r)
    BY <1>5
  <2>2. PICK e \in Members(batch[r]), p \in Paths :
          /\ e \in Owned(r) /\ e \in Calls /\ ~ok[e]
          /\ cmd' = [cmd EXCEPT ![e] = [@ EXCEPT !.path = p]]
          /\ phase' = [phase EXCEPT ![e] = "queued"]
          /\ repaired' = repaired \cup {e}
    BY <2>1, RepairCases DEF Inv
  <2>3. /\ UNCHANGED <<disk, batch, ok, node, alone>>
        /\ phase[e] = "done"
    BY <2>1, RepairCases DEF Inv
  <2>4. ASSUME NEW s \in alone, NEW t \in Members(batch[s])
        PROVE  HoldsFile(t)' /\ HasWritten(s, t)'
    <3>1. t \in Calls /\ Members(batch[s]) \subseteq Calls
      BY <1>1, <1>2
    <3>2. CASE t = e
      <4>1. phase'[t] = "queued"
        BY <3>2, <2>2, <1>1
      <4>2. QED
        BY <4>1 DEF HoldsFile, HasWritten
    <3>3. CASE t # e
      <4>1. HoldsFile(t) /\ HasWritten(s, t)
        BY DEF Inv, WritesKept
      <4>2. \A u \in Calls : u # e => phase'[u] = phase[u] /\ cmd'[u] = cmd[u]
        BY <2>2, <1>1
      <4>3. phase'[t] = phase[t] /\ cmd'[t] = cmd[t]
        BY <3>1, <3>3, <4>2
      <4>4. ~Touched(e)
        BY <2>2, <2>3 DEF Touched
      <4>5. \A u \in Members(batch[s]) : u # e => (Touched(u)' <=> Touched(u))
        BY <3>1, <4>2, <2>3 DEF Touched
      <4>6. \A u \in Members(batch[s]) : u # e => (Collide(t, u)' <=> Collide(t, u))
        BY <3>1, <3>3, <4>2, <2>2 DEF Collide
      <4>7. HoldsFile(t)'
        BY <4>1, <4>3, <2>3 DEF HoldsFile, Writes, IsFile
      <4>8. HasWritten(s, t)'
        BY <4>1, <4>3, <4>4, <4>5, <4>6, <2>3 DEF HasWritten, Writes, IsFile, Text, Members
      <4>9. QED
        BY <4>7, <4>8
    <3>4. QED
      BY <3>2, <3>3
  <2>5. QED
    BY <2>3, <2>4 DEF WritesKept, Members
<1>6. CASE (\E r \in Runs : Settle(r) \/ Abandon(r)) \/ UNCHANGED vars
  <2>1. UNCHANGED <<disk, batch, cmd, phase, ok, node, repaired, alone>>
    BY <1>6, SettleCases DEF Inv, Abandon, vars
  <2>2. QED
    BY <2>1 DEF Inv, WritesKept, HoldsFile, HasWritten, Writes, Collide, Touched,
                IsFile, Text, Members
<1>7. QED
  BY <1>3, <1>4, <1>5, <1>6 DEF Next, Node

LEMMA InitInv ==
    ASSUME Init
    PROVE  Inv
<1>1. Nodes
  <2>1. NodesDiffer(disk) /\ NodesOf(disk) \subseteq Paths
    BY InitTyped, DisksAreSound
  <2>2. Calls \cap Paths = {}
    BY ToolsAssumption
  <2>3. QED
    BY <2>1, <2>2 DEF Nodes
<1>2. InBatch
  <2>1. \A t \in Tasks : status[t] # "running"
    BY InitTyped
  <2>2. QED
    BY <2>1, OwnedTasks DEF InBatch
<1>3. \A r \in Runs : Members(batch[r]) = {}
  BY DEF Init, Members
<1>4. BatchRule /\ WritesKept
  BY <1>3 DEF Init, BatchRule, WritesKept
<1>5. Losses
  BY DEF Init, Losses, LossFits
<1>6. QED
  BY <1>1, <1>2, <1>4, <1>5, InitWellFormed, InitOutcomes DEF Inv

(* What the parallel writes of a visit report as written is on the disk     *)
(* when the visit ends, as long as nobody else has changed the workspace,   *)
(* except for tasks of the batch that name one file in two spellings and    *)
(* for repaired ones: the calls of a batch either write different files or  *)
(* collide, and an open file is found by its node wherever it lies.         *)
THEOREM ParallelWritesStand == Safety => []BatchWritesStand
<1>1. Init => Inv
  BY InitInv
<1>2. Inv /\ [Next]_vars => Inv'
  BY WellFormedStep, OutcomesStep, LossesStep, NodesStep, InBatchStep, BatchRuleStep,
     WritesKeptStep DEF Inv
<1>3. Inv => BatchWritesStand
  <2> SUFFICES ASSUME Inv, NEW r \in alone, NEW t \in Members(batch[r]),
                      status[t] = "done", Writes(t),
                      \A u \in Members(batch[r]) : ~Collide(t, u)
               PROVE  t \in Text(disk, cmd[t].path)
    BY DEF BatchWritesStand
  <2>1. r \in Runs /\ batch[r] \in Seq(Tasks)
    BY DEF Inv, WellFormed, TypeOK
  <2>2. t \in Tasks
    BY <2>1, SeqMembers
  <2>3. phase[t] = "done" /\ ok[t]
    BY <2>2 DEF Inv, Outcomes, OutcomeFits
  <2>4. HasWritten(r, t)
    BY DEF Inv, WritesKept
  <2>5. QED
    BY <2>3, <2>4 DEF HasWritten
<1>4. QED
  BY <1>1, <1>2, <1>3, PTL DEF Safety
=============================================================================
