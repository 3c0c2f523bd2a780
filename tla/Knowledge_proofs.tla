--------------------------- MODULE Knowledge_proofs --------------------------
(***************************************************************************)
(* Proofs about Knowledge for every set of files, texts, models and        *)
(* threads, and any number of documents and stops of the process: what the *)
(* rows, the vectors and the files have to do with one another while       *)
(* uploads, deletions, rebuilds and searches interleave.                   *)
(***************************************************************************)
EXTENDS Knowledge, Chunking_proofs

(* A thread that has given its document an id, until the document counts.   *)
Stages == {"chunk", "embed", "meta", "undo"}

(* What a thread works on fits the step it is at.                           *)
JobFits(th) ==
    /\ pc[th] \in {"check", "add"} => job[th].id = 0
    /\ pc[th] \in Stages \cup {"move", "record", "remove", "cascade"} => job[th].id # 0
    /\ pc[th] \in Stages => \A d \in docs : d.id = job[th].id => d.content = job[th].content
    /\ pc[th] = "chunk" =>
         \E c \in ChunksOf(job[th].content) : Stored(job[th].id, c) \notin chunks
JobsFit == \A th \in Threads : JobFits(th)

(* The rows of a document are written by one thread.                        *)
OneOwner == \A th, u \in Threads :
    pc[th] = "chunk" /\ pc[u] = "chunk" /\ job[th].id = job[u].id => th = u

IInv == TypeOK /\ JobsFit /\ OneOwner

-----------------------------------------------------------------------------
(* The operators of the model.                                              *)

LEMMA NoJobType == NoJob \in Job /\ NoJob.id = 0
BY KnowledgeAssumption DEF NoJob, Job

LEMMA ThreadsDiffer ==
    /\ Loop \in Threads /\ Workers \subseteq Threads
    /\ NoThread \notin Threads /\ Loop \notin Workers
BY KnowledgeAssumption DEF Threads

(* A chunk of a content starts at a line of it.                             *)
LEMMA ChunksOfStart ==
    ASSUME NEW content \in Contents, NEW c \in ChunksOf(content)
    PROVE  c.from \in Nat
BY KnowledgeAssumption, ChunksStartAtLines DEF ChunksOf

(* Of the chunks still to be written there is a first.                      *)
LEMMA FirstChunk ==
    ASSUME NEW content \in Contents, NEW S \in SUBSET ChunksOf(content), S # {}
    PROVE  (CHOOSE c \in S : \A d \in S : c.from <= d.from) \in S
<1> DEFINE Starts == {c.from : c \in S}
<1>1. Starts \subseteq Nat /\ Starts # {}
  BY ChunksOfStart
<1>2. \E n \in Starts : \A m \in Starts : n <= m
  BY <1>1, LeastNumber
<1>3. \E c \in S : \A d \in S : c.from <= d.from
  BY <1>2
<1>4. QED
  BY <1>3

-----------------------------------------------------------------------------
(* What a step does to the threads: th goes to a step of S, the others stay *)
(* where they are.                                                          *)

ThreadsOK ==
    /\ pc \in [Threads -> Steps] /\ job \in [Threads -> Job]
    /\ \A th \in Threads : todo[th] \subseteq Document

Others(th) == \A u \in Threads \ {th} : pc'[u] = pc[u] /\ job'[u] = job[u]
Goes(th, S) == ThreadsOK' /\ Others(th) /\ pc'[th] \in S /\ job'[th] = job[th]
Leaves(th) == ThreadsOK' /\ Others(th) /\ pc'[th] \in {"idle", "next"} /\ job'[th].id = 0

LEMMA StepOfProceed ==
    ASSUME ThreadsOK, NEW th \in Threads, NEW step \in Steps, Proceed(th, step)
    PROVE  Goes(th, {step})
BY DEF Proceed, Goto, ThreadsOK, Goes, Others

LEMMA StepOfReturn ==
    ASSUME ThreadsOK, NEW th \in Threads, NEW step \in {"idle", "next"}, Return(th, step)
    PROVE  Leaves(th)
<1>1. /\ pc' = [pc EXCEPT ![th] = step] /\ step \in Steps
      /\ job' = [job EXCEPT ![th] = NoJob] /\ todo' = todo
  BY DEF Return, Goto, Steps
<1>2. QED
  BY <1>1, NoJobType DEF ThreadsOK, Leaves, Others

LEMMA StepOfRaised ==
    ASSUME ThreadsOK, NEW th \in Threads, Raised(th)
    PROVE  Leaves(th)
BY StepOfReturn DEF Raised

LEMMA StepOfIngested ==
    ASSUME ThreadsOK, NEW th \in Threads, Ingested(th)
    PROVE  Goes(th, {"move"}) \/ Leaves(th)
<1>1. CASE th = Loop
  BY <1>1, StepOfProceed DEF Ingested, Proceed, Steps
<1>2. CASE th # Loop
  BY <1>2, StepOfReturn DEF Ingested
<1>3. QED
  BY <1>1, <1>2

(* A thread takes a job.                                                    *)
LEMMA StepOfJob ==
    ASSUME ThreadsOK, NEW th \in Threads, NEW step \in Steps, NEW j \in Job,
           Goto(th, step), job' = [job EXCEPT ![th] = j],
           todo' = todo
    PROVE  ThreadsOK' /\ Others(th) /\ pc'[th] = step /\ job'[th] = j
BY DEF Goto, ThreadsOK, Others

-----------------------------------------------------------------------------
(* The effects of the actions.                                              *)

LEMMA TypeParts == IInv => ThreadsOK
BY DEF IInv, TypeOK, ThreadsOK

LEMMA CheckCases ==
    ASSUME IInv, NEW th \in Threads, CheckEmbeddingModel(th)
    PROVE  /\ pc[th] = "check"
           /\ \/ Leaves(th)
              \/ Goes(th, {"add"}) /\ ~Refused
           /\ UNCHANGED <<tables, vectors, files, lock, model, cut, crashes>>
<1>1. ThreadsOK /\ "add" \in Steps
  BY TypeParts DEF Steps, Ingesting
<1>2. Raised(th) => Leaves(th)
  BY <1>1, StepOfRaised
<1>3. Proceed(th, "add") => Goes(th, {"add"})
  BY <1>1, StepOfProceed
<1>4. QED
  BY <1>2, <1>3 DEF CheckEmbeddingModel, Refused

LEMMA AddDocumentCases ==
    ASSUME IInv, NEW th \in Threads, AddDocument(th)
    PROVE  /\ pc[th] = "add" /\ nextDoc \in DocIds /\ nextDoc' = nextDoc + 1
           /\ docs' = docs \union {[id |-> nextDoc, content |-> job[th].content,
                                    source |-> job[th].source, recorded |-> FALSE]}
           /\ ThreadsOK' /\ Others(th)
           /\ job'[th].id = nextDoc /\ job'[th].content = job[th].content
           /\ \/ pc'[th] = "chunk" /\ ChunksOf(job[th].content) # {}
              \/ pc'[th] \in {"move", "next"} /\ ChunksOf(job[th].content) = {}
           /\ lock' = NoThread
           /\ UNCHANGED <<chunks, meta, vectors, files, model, cut, crashes>>
<1>1. ThreadsOK /\ nextDoc \in DocIds
  BY TypeParts DEF AddDocument, IInv, TypeOK, DocIds
<1>2. [job[th] EXCEPT !.id = nextDoc] \in Job
  BY <1>1 DEF ThreadsOK, Job, DocIds
<1>3. job' = [job EXCEPT ![th] = [job[th] EXCEPT !.id = nextDoc]] /\ todo' = todo
  BY DEF AddDocument
<1>4. PICK step \in {"chunk", "move", "next"} :
        /\ Goto(th, step)
        /\ \/ step = "chunk" /\ ChunksOf(job[th].content) # {}
           \/ step \in {"move", "next"} /\ ChunksOf(job[th].content) = {}
  <2>1. CASE ChunksOf(job[th].content) # {}
    BY <2>1 DEF AddDocument
  <2>2. CASE ChunksOf(job[th].content) = {} /\ th = Loop
    BY <2>2 DEF AddDocument
  <2>3. CASE ChunksOf(job[th].content) = {} /\ th # Loop
    BY <2>3 DEF AddDocument
  <2>4. QED
    BY <2>1, <2>2, <2>3
<1>5. ThreadsOK' /\ Others(th) /\ pc'[th] = step /\ job'[th] = [job[th] EXCEPT !.id = nextDoc]
  BY <1>1, <1>2, <1>3, <1>4, StepOfJob DEF Steps, Ingesting
<1>6. job'[th].id = nextDoc /\ job'[th].content = job[th].content
  BY <1>1, <1>5 DEF ThreadsOK, Job
<1>7. QED
  BY <1>1, <1>4, <1>5, <1>6 DEF AddDocument, Commit

(* The chunk that is written is one of those missing; it is the last one    *)
(* when the thread goes on to embed them.                                   *)
LEMMA AddChunkCases ==
    ASSUME IInv, NEW th \in Threads, AddChunk(th)
    PROVE  /\ pc[th] = "chunk" /\ Row(job[th].id) # {}
           /\ \E next \in ChunksOf(job[th].content) :
                /\ chunks' = chunks \union {Stored(job[th].id, next)}
                /\ \/ /\ Goes(th, {"embed"})
                      /\ \A c \in ChunksOf(job[th].content) : Stored(job[th].id, c) \in chunks'
                   \/ /\ Goes(th, {"chunk"})
                      /\ \E c \in ChunksOf(job[th].content) : Stored(job[th].id, c) \notin chunks'
           /\ lock' = NoThread
           /\ UNCHANGED <<docs, nextDoc, meta, vectors, files, model, cut, crashes>>
<1> DEFINE missing == {c \in ChunksOf(job[th].content) : Stored(job[th].id, c) \notin chunks}
           next == CHOOSE c \in missing : \A d \in missing : c.from <= d.from
<1>1. ThreadsOK /\ pc[th] = "chunk" /\ Row(job[th].id) # {}
  BY TypeParts DEF AddChunk
<1>2. missing \in SUBSET ChunksOf(job[th].content) /\ missing # {} /\ job[th].content \in Contents
  BY <1>1 DEF IInv, JobsFit, JobFits, ThreadsOK, Job
<1>3. next \in missing
  <2> HIDE DEF missing
  <2>1. QED
    BY <1>2, FirstChunk
<1>4. /\ chunks' = chunks \union {Stored(job[th].id, next)}
      /\ Proceed(th, IF missing = {next} THEN "embed" ELSE "chunk")
  BY DEF AddChunk
<1> HIDE DEF next
<1>5. CASE missing = {next}
  <2>1. Goes(th, {"embed"})
    BY <1>1, <1>4, <1>5, StepOfProceed DEF Steps, Ingesting
  <2>2. \A c \in ChunksOf(job[th].content) : Stored(job[th].id, c) \in chunks'
    BY <1>4, <1>5
  <2>3. QED
    BY <1>1, <1>2, <1>3, <1>4, <2>1, <2>2 DEF AddChunk, Commit
<1>6. CASE missing # {next}
  <2>1. Goes(th, {"chunk"})
    BY <1>1, <1>4, <1>6, StepOfProceed DEF Steps, Ingesting
  <2>2. PICK c \in missing : c # next
    BY <1>3, <1>6
  <2>3. Stored(job[th].id, c) \notin chunks'
    BY <1>4, <2>2 DEF Stored
  <2>4. QED
    BY <1>1, <1>2, <1>3, <1>4, <2>1, <2>2, <2>3 DEF AddChunk, Commit
<1>7. QED
  BY <1>5, <1>6

LEMMA ChunkWithoutDocumentCases ==
    ASSUME IInv, NEW th \in Threads, ChunkWithoutDocument(th)
    PROVE  /\ pc[th] = "chunk" /\ Leaves(th) /\ lock' = th
           /\ \A d \in docs : d.id # job[th].id
           /\ UNCHANGED <<tables, vectors, files, model, cut, crashes>>
BY TypeParts, StepOfRaised DEF ChunkWithoutDocument, Row

LEMMA AddLockedCases ==
    ASSUME IInv, NEW th \in Threads, AddLocked(th)
    PROVE  /\ pc[th] \in {"add", "chunk"} /\ Leaves(th)
           /\ cut' = cut \union ({job[th].id} \ {0})
           /\ UNCHANGED <<tables, vectors, files, lock, model, crashes>>
BY TypeParts, StepOfRaised DEF AddLocked

(* The new vectors are those of the document, from the model of today.      *)
LEMMA EmbedCases ==
    ASSUME IInv, NEW th \in Threads, Embed(th)
    PROVE  /\ pc[th] = "embed"
           /\ \/ /\ Goes(th, {"meta"})
                 /\ \A c \in ChunksOf(job[th].content) :
                      Point(Stored(job[th].id, c), model) \in vectors'
              \/ Goes(th, {"undo"})
           /\ vectors \subseteq vectors'
           /\ \A v \in vectors' \ vectors : v.row.doc = job[th].id /\ v.model = model
           /\ UNCHANGED <<tables, files, lock, model, cut, crashes>>
<1> DEFINE points == {Point(Stored(job[th].id, c), model) : c \in ChunksOf(job[th].content)}
<1>1. ThreadsOK /\ {"meta", "undo"} \subseteq Steps
  BY TypeParts DEF Steps, Ingesting
<1>2. \A s \in {"meta", "undo"} : Proceed(th, s) => Goes(th, {s})
  BY <1>1, StepOfProceed
<1>3. /\ pc[th] = "embed"
      /\ \/ vectors' = vectors \union points /\ Proceed(th, "meta")
         \/ vectors' \in {vectors, vectors \union points} /\ Proceed(th, "undo")
      /\ UNCHANGED <<tables, files, lock, model, cut, crashes>>
  BY DEF Embed
<1>4. \A v \in points : v.row.doc = job[th].id /\ v.model = model
  BY DEF Point, Stored
<1>5. \A c \in ChunksOf(job[th].content) : Point(Stored(job[th].id, c), model) \in points
  OBVIOUS
<1> HIDE DEF points
<1>6. vectors \subseteq vectors' /\ vectors' \subseteq vectors \union points
  BY <1>3
<1>7. QED
  BY <1>2, <1>3, <1>4, <1>5, <1>6

LEMMA SetMetaCases ==
    ASSUME IInv, NEW th \in Threads, SetMeta(th)
    PROVE  /\ pc[th] = "meta"
           /\ \/ /\ lock' = NoThread /\ meta' = model
                 /\ Goes(th, {"move"}) \/ Leaves(th)
              \/ Goes(th, {"undo"}) /\ UNCHANGED <<meta, lock>>
           /\ UNCHANGED <<docs, nextDoc, chunks, vectors, files, model, cut, crashes>>
<1>1. ThreadsOK /\ "undo" \in Steps
  BY TypeParts DEF Steps, Ingesting
<1>2. QED
  BY <1>1, StepOfProceed, StepOfIngested DEF SetMeta, Commit

(* A document goes with its chunks, and nothing else goes.                  *)
Deleted(id) ==
    /\ docs' \subseteq docs /\ chunks' \subseteq chunks
    /\ \A d \in docs : d \in docs' <=> d.id # id
    /\ \A c \in chunks : c \in chunks' <=> c.doc # id
LEMMA CascadeDeletes ==
    ASSUME NEW id, DeleteCascade(id)
    PROVE  Deleted(id)
BY DEF DeleteCascade, Row, Deleted

LEMMA UndoCases ==
    ASSUME IInv, NEW th \in Threads, Undo(th)
    PROVE  /\ pc[th] = "undo" /\ Leaves(th)
           /\ \/ lock' = NoThread /\ Deleted(job[th].id) /\ UNCHANGED cut
              \/ cut' = cut \union {job[th].id} /\ UNCHANGED <<docs, chunks, lock>>
           /\ UNCHANGED <<nextDoc, meta, vectors, files, model, crashes>>
BY TypeParts, StepOfRaised, CascadeDeletes DEF Undo, Commit

LEMMA UploadCases ==
    ASSUME IInv, NEW c \in Contents, Upload(c)
    PROVE  /\ pc[Loop] = "idle" /\ \A d \in docs : d.content # c
           /\ ThreadsOK' /\ Others(Loop) /\ pc'[Loop] = "check"
           /\ job'[Loop].id = 0 /\ job'[Loop].content = c
           /\ UNCHANGED <<tables, vectors, files, lock, model, cut, crashes>>
<1>1. [id |-> 0, content |-> c, source |-> "upload"] \in Job
  BY KnowledgeAssumption DEF Job
<1>2. /\ ThreadsOK' /\ Others(Loop) /\ pc'[Loop] = "check"
      /\ job'[Loop] = [id |-> 0, content |-> c, source |-> "upload"]
  BY <1>1, TypeParts, StepOfJob, ThreadsDiffer DEF Upload, Steps, Ingesting
<1>3. job'[Loop].id = 0 /\ job'[Loop].content = c
  BY <1>2
<1>4. QED
  BY <1>2, <1>3 DEF Upload

LEMMA MoveFileCases ==
    ASSUME IInv, MoveFile
    PROVE  /\ pc[Loop] = "move" /\ Goes(Loop, {"record"})
           /\ files' = files \union {job[Loop].id}
           /\ UNCHANGED <<tables, vectors, lock, model, cut, crashes>>
BY TypeParts, ThreadsDiffer, StepOfProceed DEF MoveFile, Steps

LEMMA RecordFileCases ==
    ASSUME IInv, RecordFile
    PROVE  /\ pc[Loop] = "record" /\ Leaves(Loop)
           /\ docs' \subseteq Document
           /\ \A d \in docs' : \E e \in docs :
                /\ e.id = d.id /\ e.content = d.content /\ e.source = d.source
                /\ d.recorded => e.recorded \/ d.id = job[Loop].id
           /\ \A e \in docs : \E d \in docs' : e.id = d.id /\ e.content = d.content
           /\ lock' \in {lock, NoThread}
           /\ UNCHANGED <<nextDoc, chunks, meta, vectors, files, model, cut, crashes>>
<1> DEFINE noted(d) == [d EXCEPT !.recorded = @ \/ d.id = job[Loop].id]
<1>1. Leaves(Loop)
  BY TypeParts, ThreadsDiffer, StepOfReturn DEF RecordFile
<1>2. docs \subseteq Document
  BY DEF IInv, TypeOK
<1>3. ASSUME NEW d \in docs
      PROVE  /\ noted(d) \in Document /\ noted(d).id = d.id
             /\ noted(d).content = d.content /\ noted(d).source = d.source
             /\ noted(d).recorded => d.recorded \/ d.id = job[Loop].id
  BY <1>2 DEF Document
<1>4. docs' = {noted(d) : d \in docs} \/ UNCHANGED docs
  BY DEF RecordFile
<1> HIDE DEF noted
<1>5. CASE docs' = {noted(d) : d \in docs}
  BY <1>1, <1>3, <1>5 DEF RecordFile, Commit
<1>6. CASE UNCHANGED docs
  BY <1>1, <1>2, <1>6 DEF RecordFile, Commit
<1>7. QED
  BY <1>4, <1>5, <1>6

LEMMA UnlinkFileCases ==
    ASSUME IInv, NEW w \in Workers, NEW id \in DocIds, UnlinkFile(w, id)
    PROVE  /\ pc[w] = "idle" /\ Row(id) # {}
           /\ files' = IF \E d \in Row(id) : d.recorded THEN files \ {id} ELSE files
           /\ ThreadsOK' /\ Others(w) /\ pc'[w] = "remove" /\ job'[w].id = id
           /\ UNCHANGED <<tables, vectors, lock, model, cut, crashes>>
<1>1. [NoJob EXCEPT !.id = id] \in Job /\ [NoJob EXCEPT !.id = id].id = id
  BY NoJobType DEF Job, DocIds
<1>2. w \in Threads /\ "remove" \in Steps /\ ThreadsOK
  BY TypeParts, ThreadsDiffer DEF Steps
<1>3. /\ Goto(w, "remove") /\ todo' = todo
      /\ job' = [job EXCEPT ![w] = [NoJob EXCEPT !.id = id]]
  BY DEF UnlinkFile
<1>4. /\ ThreadsOK' /\ Others(w) /\ pc'[w] = "remove"
      /\ job'[w] = [NoJob EXCEPT !.id = id]
  BY <1>1, <1>2, <1>3, StepOfJob
<1>5. QED
  BY <1>1, <1>4 DEF UnlinkFile

LEMMA RemoveVectorsCases ==
    ASSUME IInv, NEW w \in Workers, RemoveVectors(w)
    PROVE  /\ pc[w] = "remove"
           /\ \/ /\ vectors' = {v \in vectors : v.row \notin {c \in chunks : c.doc = job[w].id}}
                 /\ Goes(w, {"cascade"}) /\ UNCHANGED cut
              \/ /\ cut' = cut \union {job[w].id}
                 /\ Leaves(w) /\ UNCHANGED vectors
           /\ UNCHANGED <<tables, files, lock, model, crashes>>
<1>1. w \in Threads /\ "cascade" \in Steps /\ ThreadsOK
  BY TypeParts, ThreadsDiffer DEF Steps
<1>2. /\ Proceed(w, "cascade") => Goes(w, {"cascade"})
      /\ Return(w, "idle") => Leaves(w)
  BY <1>1, StepOfProceed, StepOfReturn
<1>3. QED
  BY <1>2 DEF RemoveVectors

LEMMA DeleteRowsCases ==
    ASSUME IInv, NEW w \in Workers, DeleteRows(w)
    PROVE  /\ pc[w] = "cascade" /\ Leaves(w)
           /\ \/ lock' = NoThread /\ Deleted(job[w].id) /\ UNCHANGED cut
              \/ cut' = cut \union {job[w].id} /\ UNCHANGED <<docs, chunks, lock>>
           /\ UNCHANGED <<nextDoc, meta, vectors, files, model, crashes>>
<1>1. w \in Threads /\ ThreadsOK
  BY TypeParts, ThreadsDiffer
<1>2. Leaves(w)
  BY <1>1, StepOfReturn DEF DeleteRows
<1>3. QED
  BY <1>2, CascadeDeletes DEF DeleteRows, Commit

LEMMA BeginRebuildCases ==
    ASSUME IInv, NEW w \in Workers, BeginRebuild(w)
    PROVE  /\ pc[w] = "idle" /\ Goes(w, {"reset"})
           /\ UNCHANGED <<tables, vectors, files, lock, model, cut, crashes>>
BY TypeParts, ThreadsDiffer
   DEF BeginRebuild, Goto, Steps, Goes, Others, ThreadsOK, IInv, TypeOK

LEMMA ResetIndexCases ==
    ASSUME IInv, NEW w \in Workers, ResetIndex(w)
    PROVE  /\ pc[w] = "reset" /\ Goes(w, {"clear"}) /\ vectors' = {}
           /\ UNCHANGED <<tables, files, lock, model, cut, crashes>>
BY TypeParts, ThreadsDiffer, StepOfProceed DEF ResetIndex, Steps

LEMMA ClearAllCases ==
    ASSUME IInv, NEW w \in Workers, ClearAll(w)
    PROVE  /\ pc[w] = "clear"
           /\ \/ /\ lock' = NoThread /\ docs' = {} /\ chunks' = {} /\ meta' = NoModel
                 /\ Goes(w, {"next"}) /\ UNCHANGED cut
              \/ /\ cut' = cut \union {d.id : d \in docs} /\ Goes(w, {"idle"})
                 /\ UNCHANGED <<docs, chunks, meta, lock>>
           /\ UNCHANGED <<nextDoc, vectors, files, model, crashes>>
<1>1. w \in Threads /\ {"next", "idle"} \subseteq Steps /\ ThreadsOK
  BY TypeParts, ThreadsDiffer DEF Steps
<1>2. Proceed(w, "next") => Goes(w, {"next"})
  BY <1>1, StepOfProceed
<1>3. ASSUME Goto(w, "idle"), todo' = [todo EXCEPT ![w] = {}], UNCHANGED job
      PROVE  Goes(w, {"idle"})
  BY <1>1, <1>3 DEF Goto, ThreadsOK, Goes, Others
<1>4. QED
  BY <1>2, <1>3 DEF ClearAll, Commit

LEMMA ReingestCases ==
    ASSUME IInv, NEW w \in Workers, Reingest(w)
    PROVE  /\ pc[w] = "next" /\ ThreadsOK' /\ Others(w)
           /\ \/ pc'[w] = "check" /\ job'[w].id = 0 /\ job'[w].source = "file"
              \/ pc'[w] = "next" /\ job'[w] = job[w]
           /\ UNCHANGED <<tables, vectors, files, lock, model, cut, crashes>>
<1>1. w \in Threads /\ "check" \in Steps /\ ThreadsOK
  BY TypeParts, ThreadsDiffer DEF Steps, Ingesting
<1>2. PICK d \in todo[w] :
        /\ todo' = [todo EXCEPT ![w] = @ \ {d}]
        /\ \/ /\ job' = [job EXCEPT ![w] = [id |-> 0, content |-> d.content, source |-> "file"]]
              /\ Goto(w, "check")
           \/ UNCHANGED <<pc, job>>
  BY DEF Reingest
<1>3. [id |-> 0, content |-> d.content, source |-> "file"] \in Job
  BY <1>1, <1>2, KnowledgeAssumption DEF ThreadsOK, Document, Job
<1>4. \A u \in Threads : todo'[u] \subseteq Document
  BY <1>1, <1>2 DEF ThreadsOK, IInv, TypeOK
<1>5. CASE UNCHANGED <<pc, job>>
  BY <1>1, <1>4, <1>5 DEF Reingest, ThreadsOK, Others
<1>6. CASE /\ job' = [job EXCEPT ![w] = [id |-> 0, content |-> d.content, source |-> "file"]]
           /\ Goto(w, "check")
  <2>1. job' \in [Threads -> Job] /\ pc' \in [Threads -> Steps]
    BY <1>1, <1>3, <1>6 DEF ThreadsOK, Goto
  <2>2. pc'[w] = "check" /\ job'[w].id = 0 /\ job'[w].source = "file" /\ Others(w)
    BY <1>1, <1>6 DEF ThreadsOK, Goto, Others
  <2>3. QED
    BY <1>4, <2>1, <2>2 DEF Reingest, ThreadsOK
<1>7. QED
  BY <1>2, <1>5, <1>6

LEMMA EndRebuildCases ==
    ASSUME IInv, NEW w \in Workers, EndRebuild(w)
    PROVE  /\ pc[w] = "next" /\ Leaves(w)
           /\ UNCHANGED <<tables, vectors, files, lock, model, cut, crashes>>
BY TypeParts, ThreadsDiffer, StepOfReturn DEF EndRebuild

(* The steps of a search.                                                   *)
LEMMA SearchCases ==
    ASSUME IInv, NEW w \in Workers, VectorSearch(w) \/ LexicalSearch(w) \/ Fetch(w)
    PROVE  /\ \/ pc[w] = "idle" /\ ~Refused /\ Goes(w, {"lexical"})
              \/ pc[w] = "lexical" /\ Goes(w, {"fetch"})
              \/ pc[w] = "fetch" /\ Goes(w, {"idle"})
           /\ UNCHANGED <<tables, vectors, files, lock, model, cut, crashes>>
<1>1. w \in Threads /\ {"lexical", "fetch", "idle"} \subseteq Steps /\ ThreadsOK
  BY TypeParts, ThreadsDiffer DEF Steps
<1>2. ASSUME NEW s \in {"lexical", "fetch", "idle"}, Goto(w, s), UNCHANGED <<job, todo>>
      PROVE  Goes(w, {s})
  BY <1>1, <1>2 DEF Goto, ThreadsOK, Goes, Others
<1>3. QED
  BY <1>2 DEF VectorSearch, LexicalSearch, Fetch

LEMMA RestartCases ==
    ASSUME IInv, Restart
    PROVE  /\ model' \in Models /\ lock' = NoThread
           /\ crashes' \in 0 .. Crashes
           /\ cut \subseteq cut' /\ cut' \subseteq 1 .. (nextDoc - 1)
           /\ \A th \in Threads : pc[th] # "clear" /\ job[th].id # 0 => job[th].id \in cut'
           /\ (\E th \in Threads : pc[th] = "clear") => \A d \in docs : d.id \in cut'
           /\ ThreadsOK' /\ \A th \in Threads : pc'[th] = "idle" /\ job'[th].id = 0
           /\ UNCHANGED <<tables, vectors, files>>
<1>1. /\ docs \subseteq Document /\ \A d \in docs : d.id < nextDoc
      /\ cut \subseteq 1 .. (nextDoc - 1) /\ nextDoc \in Nat
      /\ \A th \in Threads : job[th].id \in 0 .. (nextDoc - 1)
  BY KnowledgeAssumption DEF IInv, TypeOK, Job
<1>2. cut' = cut \union UNION {Involved(th) : th \in Threads}
  BY DEF Restart
<1>3. ASSUME NEW th \in Threads
      PROVE  /\ Involved(th) \subseteq 1 .. (nextDoc - 1)
             /\ pc[th] # "clear" /\ job[th].id # 0 => job[th].id \in Involved(th)
             /\ pc[th] = "clear" => \A d \in docs : d.id \in Involved(th)
  <2>1. \A d \in docs : d.id \in 1 .. (nextDoc - 1)
    BY <1>1 DEF Document, DocIds
  <2>2. QED
    BY <1>1, <2>1 DEF Involved
<1>4. /\ cut \subseteq cut' /\ cut' \subseteq 1 .. (nextDoc - 1)
      /\ \A th \in Threads : pc[th] # "clear" /\ job[th].id # 0 => job[th].id \in cut'
      /\ (\E th \in Threads : pc[th] = "clear") => \A d \in docs : d.id \in cut'
  BY <1>1, <1>2, <1>3
<1>5. QED
  BY <1>4, NoJobType, KnowledgeAssumption DEF Restart, ThreadsOK, IInv, TypeOK, Steps

-----------------------------------------------------------------------------
(* The types, and the jobs the threads have in hand.                        *)

TablesOK ==
    /\ docs \subseteq Document /\ nextDoc \in 1..(MaxDocs + 1)
    /\ \A d \in docs : d.id < nextDoc
    /\ \A c \in chunks : \E d \in docs : c.doc = d.id /\ c.chunk \in ChunksOf(d.content)
IndexOK ==
    /\ \A v \in vectors : v.row.doc \in 1..(nextDoc - 1) /\ v.model \in Models
    /\ meta \in Models \union {NoModel} /\ model \in Models
    /\ files \subseteq 1..(nextDoc - 1) /\ cut \subseteq 1..(nextDoc - 1)
    /\ lock \in Threads \union {NoThread} /\ crashes \in 0..Crashes
IdsGiven == \A th \in Threads : job[th].id < nextDoc

LEMMA TypeIs == TypeOK <=> TablesOK /\ IndexOK /\ ThreadsOK /\ IdsGiven
BY DEF TypeOK, TablesOK, IndexOK, ThreadsOK, IdsGiven

LEMMA IInvIs ==
    /\ IInv <=> TablesOK /\ IndexOK /\ ThreadsOK /\ IdsGiven /\ JobsFit /\ OneOwner
    /\ IInv' <=> TablesOK' /\ IndexOK' /\ ThreadsOK' /\ IdsGiven' /\ JobsFit' /\ OneOwner'
BY TypeIs DEF IInv, TypeOK, TablesOK, IndexOK, ThreadsOK, IdsGiven

(* Documents only go, or change their record, or are new.                   *)
Familiar == \A d \in docs' : d.id # nextDoc => \E e \in docs : e.id = d.id /\ e.content = d.content

(* A step of th leaves the jobs of the others as they should be.            *)
LEMMA FitStep ==
    ASSUME IInv, NEW th \in Threads, Others(th), Familiar,
           \A c \in chunks' \ chunks : pc[th] = "chunk" /\ c.doc = job[th].id,
           JobFits(th)',
           pc'[th] = "chunk" => \/ pc[th] = "chunk" /\ job'[th] = job[th]
                                \/ job'[th].id = nextDoc
    PROVE  JobsFit' /\ OneOwner'
<1>1. ASSUME NEW u \in Threads
      PROVE  JobFits(u) /\ job[u].id < nextDoc
  BY DEF IInv, JobsFit, TypeOK
<1>2. ASSUME NEW u \in Threads \ {th}
      PROVE  JobFits(u)'
  <2>1. pc'[u] = pc[u] /\ job'[u] = job[u] /\ JobFits(u) /\ job[u].id < nextDoc
    BY <1>1 DEF Others
  <2>2. pc[u] \in Stages => \A d \in docs' : d.id = job[u].id => d.content = job[u].content
    <3>1. job[u].id # nextDoc
      BY <1>1, TypeIs DEF IInv, TablesOK, ThreadsOK, Job
    <3>2. QED
      BY <2>1, <3>1 DEF JobFits, Familiar
  <2>3. ASSUME pc[u] = "chunk"
        PROVE  \E c \in ChunksOf(job[u].content) : Stored(job[u].id, c) \notin chunks'
    <3>1. PICK c \in ChunksOf(job[u].content) : Stored(job[u].id, c) \notin chunks
      BY <2>1, <2>3 DEF JobFits
    <3>2. pc[th] = "chunk" => job[th].id # job[u].id
      BY <2>3 DEF IInv, OneOwner
    <3>3. Stored(job[u].id, c).doc = job[u].id
      BY DEF Stored
    <3>4. QED
      BY <3>1, <3>2, <3>3
  <2>4. QED
    BY <2>1, <2>2, <2>3 DEF JobFits
<1>3. JobsFit'
  BY <1>2 DEF JobsFit
<1>4. ASSUME NEW t \in Threads, NEW u \in Threads,
             pc'[t] = "chunk", pc'[u] = "chunk", job'[t].id = job'[u].id, t # u
      PROVE  FALSE
  <2>1. \A x \in Threads : job[x].id # nextDoc
    BY <1>1, TypeIs DEF IInv, TablesOK, ThreadsOK, Job
  <2>2. t # th => pc[t] = "chunk" /\ job'[t] = job[t]
    BY <1>4 DEF Others
  <2>3. u # th => pc[u] = "chunk" /\ job'[u] = job[u]
    BY <1>4 DEF Others
  <2>4. CASE t = th
    BY <1>4, <2>1, <2>3, <2>4 DEF IInv, OneOwner
  <2>5. CASE u = th
    BY <1>4, <2>1, <2>2, <2>5 DEF IInv, OneOwner
  <2>6. CASE t # th /\ u # th
    BY <1>4, <2>2, <2>3, <2>6 DEF IInv, OneOwner
  <2>7. QED
    BY <2>4, <2>5, <2>6
<1>5. QED
  BY <1>3, <1>4 DEF OneOwner

(* A thread that has left, or stays with its job outside the rows.          *)
LEMMA QuietStep ==
    ASSUME IInv, NEW th \in Threads, UNCHANGED <<docs, nextDoc, chunks>>,
           \/ Leaves(th)
           \/ Goes(th, Steps \ Stages) /\ JobFits(th)'
           \/ Goes(th, Stages \ {"chunk"}) /\ pc[th] \in Stages,
           IndexOK'
    PROVE  IInv'
<1>1. TablesOK'
  BY TypeIs DEF IInv, TablesOK
<1>2. ThreadsOK' /\ Others(th)
  BY DEF Leaves, Goes
<1>3. IdsGiven'
  <2>1. job'[th].id = 0 \/ job'[th] = job[th]
    BY DEF Leaves, Goes
  <2>2. QED
    BY <1>2, <2>1, TypeIs DEF IInv, IdsGiven, Others, TablesOK
<1>4. JobFits(th)' /\ pc'[th] # "chunk"
  BY DEF Leaves, Goes, JobFits, Stages, IInv, JobsFit
<1>5. Familiar
  BY DEF Familiar
<1>6. JobsFit' /\ OneOwner'
  BY <1>2, <1>4, <1>5, FitStep
<1>7. QED
  BY <1>1, <1>2, <1>3, <1>6, IInvIs

LEMMA InitType == Init => IInv
BY KnowledgeAssumption, NoJobType, ThreadsDiffer
   DEF Init, IInv, TypeOK, JobsFit, JobFits, OneOwner, Steps, Stages, Document

LEMMA StepsOutsideStages ==
    {"idle", "check", "add", "move", "record", "remove", "cascade", "reset", "clear",
     "next", "lexical", "fetch"} \subseteq Steps \ Stages
BY DEF Steps, Stages, Ingesting

LEMMA AddDocumentType ==
    ASSUME IInv, NEW th \in Threads, AddDocument(th)
    PROVE  IInv'
<1>1. /\ TablesOK /\ IndexOK /\ ThreadsOK /\ IdsGiven
      /\ pc[th] = "add" /\ job[th] \in Job
  BY AddDocumentCases, TypeIs DEF IInv, ThreadsOK
<1> DEFINE row == [id |-> nextDoc, content |-> job[th].content,
                   source |-> job[th].source, recorded |-> FALSE]
<1>2. /\ nextDoc \in DocIds /\ nextDoc' = nextDoc + 1 /\ docs' = docs \union {row}
      /\ ThreadsOK' /\ Others(th)
      /\ job'[th].id = nextDoc /\ job'[th].content = job[th].content
      /\ pc'[th] \in {"chunk", "move", "next"}
      /\ pc'[th] = "chunk" => ChunksOf(job[th].content) # {}
      /\ lock' = NoThread
      /\ UNCHANGED <<chunks, meta, vectors, files, model, cut, crashes>>
  BY AddDocumentCases
<1>3. TablesOK'
  <2>1. row \in Document /\ row.id = nextDoc
    BY <1>1, <1>2 DEF Document, Job
  <2>2. docs' \subseteq Document /\ nextDoc' \in 1..(MaxDocs + 1)
    <3>1. docs' \subseteq Document
      BY <1>1, <1>2, <2>1 DEF TablesOK
    <3>2. QED
      BY <1>2, <3>1, KnowledgeAssumption DEF DocIds
  <2>3. \A d \in docs' : d.id < nextDoc'
    BY <1>1, <1>2, <2>1, <2>2 DEF TablesOK, Document, DocIds
  <2>4. \A c \in chunks' : \E d \in docs' : c.doc = d.id /\ c.chunk \in ChunksOf(d.content)
    BY <1>1, <1>2 DEF TablesOK
  <2>5. QED
    BY <2>2, <2>3, <2>4 DEF TablesOK
<1>4. IndexOK'
  BY <1>1, <1>2 DEF IndexOK, DocIds
<1>5. IdsGiven'
  BY <1>1, <1>2 DEF IdsGiven, Others, ThreadsOK, Job, DocIds
<1>6. Familiar
  BY <1>2 DEF Familiar
<1>7. JobFits(th)'
  <2>1. \A d \in docs' : d.id = nextDoc => d.content = job'[th].content
    BY <1>1, <1>2 DEF TablesOK, DocIds
  <2>2. \A c : Stored(nextDoc, c) \notin chunks'
    BY <1>1, <1>2 DEF TablesOK, Stored, DocIds
  <2>3. QED
    BY <1>2, <2>1, <2>2 DEF JobFits, DocIds, Stages
<1>8. JobsFit' /\ OneOwner'
  BY <1>2, <1>6, <1>7, FitStep
<1>9. QED
  BY <1>2, <1>3, <1>4, <1>5, <1>8, IInvIs

LEMMA AddChunkType ==
    ASSUME IInv, NEW th \in Threads, AddChunk(th)
    PROVE  IInv'
<1>1. /\ TablesOK /\ IndexOK /\ ThreadsOK /\ IdsGiven
      /\ JobFits(th) /\ job[th] \in Job
  BY TypeIs DEF IInv, ThreadsOK, JobsFit
<1>2. PICK next \in ChunksOf(job[th].content) :
        /\ chunks' = chunks \union {Stored(job[th].id, next)}
        /\ \/ Goes(th, {"embed"})
           \/ /\ Goes(th, {"chunk"})
              /\ \E c \in ChunksOf(job[th].content) : Stored(job[th].id, c) \notin chunks'
  BY AddChunkCases
<1>3. /\ pc[th] = "chunk" /\ Row(job[th].id) # {} /\ lock' = NoThread
      /\ UNCHANGED <<docs, nextDoc, meta, vectors, files, model, cut, crashes>>
  BY AddChunkCases
<1>4. TablesOK'
  <2>1. PICK d \in docs : d.id = job[th].id
    BY <1>3 DEF Row
  <2>2. d.content = job[th].content
    BY <1>1, <1>3, <2>1 DEF JobFits, Stages
  <2>3. \A c \in chunks' : \E e \in docs : c.doc = e.id /\ c.chunk \in ChunksOf(e.content)
    BY <1>1, <1>2, <2>1, <2>2 DEF TablesOK, Stored
  <2>4. QED
    BY <1>1, <1>3, <2>3 DEF TablesOK
<1>5. IndexOK'
  BY <1>1, <1>3 DEF IndexOK
<1>6. ThreadsOK' /\ Others(th) /\ job'[th] = job[th] /\ pc'[th] \in {"embed", "chunk"}
  BY <1>2 DEF Goes
<1>7. IdsGiven'
  BY <1>1, <1>3, <1>6 DEF IdsGiven, Others
<1>8. JobFits(th)'
  <2>1. pc'[th] = "chunk" =>
          \E c \in ChunksOf(job[th].content) : Stored(job[th].id, c) \notin chunks'
    BY <1>2 DEF Goes
  <2>2. QED
    BY <1>1, <1>3, <1>6, <2>1 DEF JobFits, Stages
<1>9. Familiar
  BY <1>3 DEF Familiar
<1>10. \A c \in chunks' \ chunks : pc[th] = "chunk" /\ c.doc = job[th].id
  BY <1>2, <1>3 DEF Stored
<1>11. JobsFit' /\ OneOwner'
  BY <1>3, <1>6, <1>8, <1>9, <1>10, FitStep
<1>12. QED
  BY <1>4, <1>5, <1>6, <1>7, <1>11, IInvIs

(* Deleting a document, or noting that it could not be deleted.             *)
LEMMA DeleteType ==
    ASSUME IInv, NEW th \in Threads, Leaves(th), job[th].id # 0,
           \/ lock' = NoThread /\ Deleted(job[th].id) /\ UNCHANGED cut
           \/ cut' = cut \union {job[th].id} /\ UNCHANGED <<docs, chunks, lock>>,
           UNCHANGED <<nextDoc, meta, vectors, files, model, crashes>>
    PROVE  IInv'
<1>1. TablesOK /\ IndexOK /\ ThreadsOK /\ IdsGiven
  BY TypeIs DEF IInv
<1>2. ThreadsOK' /\ Others(th) /\ pc'[th] \in {"idle", "next"} /\ job'[th].id = 0
  BY DEF Leaves
<1>3. docs' \subseteq docs /\ chunks' \subseteq chunks
  BY DEF Deleted
<1>4. TablesOK'
  <2>1. \A c \in chunks' : \E d \in docs' : c.doc = d.id /\ c.chunk \in ChunksOf(d.content)
    BY <1>1 DEF TablesOK, Deleted
  <2>2. QED
    BY <1>1, <1>3, <2>1 DEF TablesOK
<1>5. IndexOK'
  <2>1. job[th].id \in 1 .. (nextDoc - 1)
    BY <1>1 DEF ThreadsOK, IdsGiven, TablesOK, Job
  <2>2. QED
    BY <1>1, <2>1 DEF IndexOK
<1>6. IdsGiven'
  BY <1>1, <1>2 DEF IdsGiven, Others, TablesOK
<1>7. JobFits(th)'
  BY <1>2 DEF JobFits, Stages
<1>8. Familiar
  BY <1>3 DEF Familiar
<1>9. JobsFit' /\ OneOwner'
  BY <1>2, <1>3, <1>7, <1>8, FitStep
<1>10. QED
  BY <1>2, <1>4, <1>5, <1>6, <1>9, IInvIs

LEMMA RecordFileType ==
    ASSUME IInv, RecordFile
    PROVE  IInv'
<1>1. TablesOK /\ IndexOK /\ ThreadsOK /\ IdsGiven /\ Loop \in Threads
  BY TypeIs, ThreadsDiffer DEF IInv
<1>2. /\ ThreadsOK' /\ Others(Loop) /\ pc'[Loop] \in {"idle", "next"} /\ job'[Loop].id = 0
      /\ lock' \in {lock, NoThread}
      /\ UNCHANGED <<nextDoc, chunks, meta, vectors, files, model, cut, crashes>>
  BY RecordFileCases DEF Leaves
<1>3. /\ docs' \subseteq Document
      /\ \A d \in docs' : \E e \in docs : e.id = d.id /\ e.content = d.content
      /\ \A e \in docs : \E d \in docs' : e.id = d.id /\ e.content = d.content
  BY RecordFileCases
<1>4. TablesOK'
  <2>1. \A d \in docs' : d.id < nextDoc'
    BY <1>1, <1>2, <1>3 DEF TablesOK
  <2>2. \A c \in chunks' : \E d \in docs' : c.doc = d.id /\ c.chunk \in ChunksOf(d.content)
    BY <1>1, <1>2, <1>3 DEF TablesOK
  <2>3. QED
    BY <1>1, <1>2, <1>3, <2>1, <2>2 DEF TablesOK
<1>5. IndexOK'
  BY <1>1, <1>2 DEF IndexOK
<1>6. IdsGiven'
  BY <1>1, <1>2 DEF IdsGiven, Others, TablesOK
<1>7. JobFits(Loop)'
  BY <1>2 DEF JobFits, Stages
<1>8. Familiar
  BY <1>3 DEF Familiar
<1>9. JobsFit' /\ OneOwner'
  BY <1>1, <1>2, <1>7, <1>8, FitStep
<1>10. QED
  BY <1>2, <1>4, <1>5, <1>6, <1>9, IInvIs

(* A thread takes up a document that has no id yet, or one to delete.       *)
LEMMA TakeType ==
    ASSUME IInv, NEW th \in Threads, ThreadsOK', Others(th),
           \/ pc'[th] = "check" /\ job'[th].id = 0
           \/ pc'[th] = "remove" /\ job'[th].id \in 1 .. (nextDoc - 1)
           \/ pc'[th] = "next" /\ pc[th] = "next" /\ job'[th] = job[th],
           files' \subseteq files,
           UNCHANGED <<tables, vectors, lock, model, cut, crashes>>
    PROVE  IInv'
<1>1. TablesOK /\ IndexOK /\ ThreadsOK /\ IdsGiven
  BY TypeIs DEF IInv
<1>2. TablesOK' /\ IndexOK'
  BY <1>1 DEF TablesOK, IndexOK, tables
<1>3. IdsGiven'
  BY <1>1 DEF IdsGiven, Others, TablesOK, tables
<1>4. JobFits(th)'
  BY DEF JobFits, Stages
<1>5. JobsFit' /\ OneOwner'
  <2>1. Familiar
    BY DEF Familiar, tables
  <2>2. QED
    BY <1>4, <2>1, FitStep DEF tables
<1>6. QED
  BY <1>2, <1>3, <1>5, IInvIs

LEMMA ClearAllType ==
    ASSUME IInv, NEW w \in Workers, ClearAll(w)
    PROVE  IInv'
<1>1. TablesOK /\ IndexOK /\ ThreadsOK /\ IdsGiven /\ w \in Threads
  BY TypeIs, ThreadsDiffer DEF IInv
<1>2. /\ ThreadsOK' /\ Others(w) /\ pc'[w] \in {"idle", "next"} /\ job'[w] = job[w]
      /\ nextDoc' = nextDoc /\ lock' \in {lock, NoThread} /\ meta' \in {meta, NoModel}
      /\ docs' \subseteq docs /\ chunks' \subseteq chunks
      /\ chunks' = {} \/ docs' = docs
      /\ cut' \in {cut, cut \union {d.id : d \in docs}}
      /\ UNCHANGED <<vectors, files, model, crashes>>
  BY ClearAllCases DEF Goes
<1>3. TablesOK'
  BY <1>1, <1>2 DEF TablesOK
<1>4. IndexOK'
  <2>1. {d.id : d \in docs} \subseteq 1 .. (nextDoc - 1)
    BY <1>1 DEF TablesOK, Document, DocIds
  <2>2. QED
    BY <1>1, <1>2, <2>1 DEF IndexOK
<1>5. IdsGiven'
  BY <1>1, <1>2 DEF IdsGiven, Others
<1>6. JobFits(w)'
  BY <1>2 DEF JobFits, Stages
<1>7. Familiar
  BY <1>2 DEF Familiar
<1>8. JobsFit' /\ OneOwner'
  BY <1>1, <1>2, <1>6, <1>7, FitStep
<1>9. QED
  BY <1>2, <1>3, <1>4, <1>5, <1>8, IInvIs

LEMMA RestartType ==
    ASSUME IInv, Restart
    PROVE  IInv'
<1>1. TablesOK /\ IndexOK /\ ThreadsOK /\ IdsGiven
  BY IInvIs
<1>2. /\ model' \in Models /\ lock' = NoThread /\ crashes' \in 0 .. Crashes
      /\ cut' \subseteq 1 .. (nextDoc - 1)
      /\ ThreadsOK' /\ \A th \in Threads : pc'[th] = "idle" /\ job'[th].id = 0
      /\ UNCHANGED <<docs, nextDoc, chunks, meta, vectors, files>>
  BY RestartCases DEF tables
<1>3. TablesOK'
  BY <1>1, <1>2 DEF TablesOK
<1>4. IndexOK'
  BY <1>1, <1>2 DEF IndexOK
<1>5. IdsGiven' /\ JobsFit' /\ OneOwner'
  BY <1>1, <1>2 DEF IdsGiven, JobsFit, JobFits, OneOwner, Stages, TablesOK
<1>6. QED
  BY <1>2, <1>3, <1>4, <1>5, IInvIs

LEMMA TypeStep == IInv /\ [Next]_vars => IInv'
<1> SUFFICES ASSUME IInv, [Next]_vars PROVE IInv'
  OBVIOUS
<1>1. TablesOK /\ IndexOK /\ ThreadsOK /\ IdsGiven /\ \A th \in Threads : JobFits(th)
  BY TypeIs DEF IInv, JobsFit
<1>2. \A th \in Threads : job[th].id \in 0 .. (nextDoc - 1)
  BY <1>1 DEF ThreadsOK, IdsGiven, TablesOK, Job
<1>3. CASE UNCHANGED vars
  BY <1>3 DEF IInv, TypeOK, JobsFit, JobFits, OneOwner, vars, tables, thread
<1>4. ASSUME NEW th \in Threads, CheckEmbeddingModel(th)
      PROVE  IInv'
  <2>1. /\ UNCHANGED <<docs, nextDoc, chunks, vectors, meta, files, lock, model, cut, crashes>>
        /\ pc[th] = "check" /\ (Leaves(th) \/ Goes(th, {"add"}))
    BY <1>4, CheckCases DEF tables
  <2>2. IndexOK'
    BY <1>1, <2>1 DEF IndexOK
  <2>3. Goes(th, {"add"}) => Goes(th, Steps \ Stages) /\ JobFits(th)'
    BY <1>1, <2>1, StepsOutsideStages DEF JobFits, Goes, Stages
  <2>4. QED
    BY <2>1, <2>2, <2>3, QuietStep
<1>5. ASSUME NEW th \in Threads, AddDocument(th)
      PROVE  IInv'
  BY <1>5, AddDocumentType
<1>6. ASSUME NEW th \in Threads, AddChunk(th)
      PROVE  IInv'
  BY <1>6, AddChunkType
<1>7. ASSUME NEW th \in Threads, ChunkWithoutDocument(th) \/ AddLocked(th)
      PROVE  IInv'
  <2>1. /\ UNCHANGED <<docs, nextDoc, chunks, vectors, meta, files, model, crashes>>
        /\ Leaves(th) /\ lock' \in {lock, th}
        /\ cut' \in {cut, cut \union ({job[th].id} \ {0})}
    BY <1>7, ChunkWithoutDocumentCases, AddLockedCases DEF tables
  <2>2. IndexOK'
    BY <1>1, <1>2, <2>1 DEF IndexOK
  <2>3. QED
    BY <2>1, <2>2, QuietStep
<1>8. ASSUME NEW th \in Threads, Embed(th)
      PROVE  IInv'
  <2>1. /\ UNCHANGED <<docs, nextDoc, chunks, meta, files, lock, model, cut, crashes>>
        /\ pc[th] = "embed" /\ (Goes(th, {"meta"}) \/ Goes(th, {"undo"}))
        /\ \A v \in vectors' \ vectors : v.row.doc = job[th].id /\ v.model = model
    BY <1>8, EmbedCases DEF tables
  <2>2. job[th].id \in 1 .. (nextDoc - 1)
    BY <1>1, <1>2, <2>1 DEF JobFits, Stages
  <2>3. IndexOK'
    <3>1. \A v \in vectors' : v.row.doc \in 1 .. (nextDoc - 1) /\ v.model \in Models
      BY <1>1, <2>1, <2>2 DEF IndexOK
    <3>2. QED
      BY <1>1, <2>1, <3>1 DEF IndexOK
  <2>4. Goes(th, Stages \ {"chunk"}) /\ pc[th] \in Stages
    BY <2>1 DEF Goes, Stages
  <2>5. QED
    BY <2>1, <2>3, <2>4, QuietStep
<1>9. ASSUME NEW th \in Threads, SetMeta(th)
      PROVE  IInv'
  <2>1. /\ UNCHANGED <<docs, nextDoc, chunks, vectors, files, model, cut, crashes>>
        /\ pc[th] = "meta" /\ (Goes(th, {"move"}) \/ Leaves(th) \/ Goes(th, {"undo"}))
        /\ lock' \in {lock, NoThread} /\ meta' \in {meta, model}
    BY <1>9, SetMetaCases
  <2>2. IndexOK'
    BY <1>1, <2>1 DEF IndexOK
  <2>3. Goes(th, {"move"}) => Goes(th, Steps \ Stages) /\ JobFits(th)'
    BY <1>1, <2>1, StepsOutsideStages DEF JobFits, Goes, Stages
  <2>4. Goes(th, {"undo"}) => Goes(th, Stages \ {"chunk"}) /\ pc[th] \in Stages
    BY <2>1 DEF Goes, Stages
  <2>5. QED
    BY <2>1, <2>2, <2>3, <2>4, QuietStep
<1>10. ASSUME NEW th \in Threads, Undo(th)
       PROVE  IInv'
  <2>1. job[th].id # 0
    BY <1>1, <1>10, UndoCases DEF JobFits, Stages
  <2>2. QED
    BY <1>10, <2>1, UndoCases, DeleteType
<1>11. ASSUME NEW th \in Threads, OtherCommit(th)
       PROVE  IInv'
  BY <1>11 DEF OtherCommit, IInv, TypeOK, JobsFit, JobFits, OneOwner, tables, thread
<1>12. ASSUME NEW c \in Contents, Upload(c)
       PROVE  IInv'
  <2>1. Loop \in Threads /\ files' \subseteq files
    BY <1>12, UploadCases, ThreadsDiffer
  <2>2. QED
    BY <1>12, <2>1, UploadCases, TakeType
<1>13. CASE MoveFile
  <2>1. /\ UNCHANGED <<docs, nextDoc, chunks, vectors, meta, lock, model, cut, crashes>>
        /\ pc[Loop] = "move" /\ Goes(Loop, {"record"}) /\ files' = files \union {job[Loop].id}
    BY <1>13, MoveFileCases DEF tables
  <2>2. Loop \in Threads /\ job[Loop].id \in 1 .. (nextDoc - 1)
    BY <1>1, <1>2, <2>1, ThreadsDiffer DEF JobFits, Stages
  <2>3. IndexOK'
    BY <1>1, <2>1, <2>2 DEF IndexOK
  <2>4. Goes(Loop, Steps \ Stages) /\ JobFits(Loop)'
    BY <2>1, <2>2, StepsOutsideStages DEF JobFits, Goes, Stages
  <2>5. QED
    BY <2>1, <2>2, <2>3, <2>4, QuietStep
<1>14. CASE RecordFile
  BY <1>14, RecordFileType
<1>15. ASSUME NEW w \in Workers, NEW id \in DocIds, UnlinkFile(w, id)
       PROVE  IInv'
  <2>1. id \in 1 .. (nextDoc - 1)
    BY <1>1, <1>15, UnlinkFileCases DEF Row, TablesOK, DocIds
  <2>2. files' \subseteq files
    BY <1>15, UnlinkFileCases
  <2>3. w \in Threads
    BY ThreadsDiffer
  <2>4. QED
    BY <1>15, <2>1, <2>2, <2>3, UnlinkFileCases, TakeType
<1>16. ASSUME NEW w \in Workers, RemoveVectors(w)
       PROVE  IInv'
  <2>1. /\ UNCHANGED <<docs, nextDoc, chunks, meta, files, lock, model, crashes>>
        /\ pc[w] = "remove" /\ (Goes(w, {"cascade"}) \/ Leaves(w))
        /\ vectors' \subseteq vectors /\ cut' \in {cut, cut \union {job[w].id}}
    BY <1>16, RemoveVectorsCases DEF tables
  <2>2. w \in Threads /\ job[w].id # 0
    BY <1>1, <2>1, ThreadsDiffer DEF JobFits, Stages
  <2>3. IndexOK'
    BY <1>1, <1>2, <2>1, <2>2 DEF IndexOK
  <2>4. Goes(w, {"cascade"}) => Goes(w, Steps \ Stages) /\ JobFits(w)'
    BY <2>1, <2>2, StepsOutsideStages DEF JobFits, Goes, Stages
  <2>5. QED
    BY <2>1, <2>2, <2>3, <2>4, QuietStep
<1>17. ASSUME NEW w \in Workers, DeleteRows(w)
       PROVE  IInv'
  <2>1. w \in Threads /\ job[w].id # 0
    BY <1>1, <1>17, ThreadsDiffer, DeleteRowsCases DEF JobFits, Stages
  <2>2. QED
    BY <1>17, <2>1, DeleteRowsCases, DeleteType
<1>18. ASSUME NEW w \in Workers, BeginRebuild(w) \/ ResetIndex(w)
       PROVE  IInv'
  <2>1. /\ UNCHANGED <<docs, nextDoc, chunks, meta, files, lock, model, cut, crashes>>
        /\ Goes(w, {"reset", "clear"}) /\ vectors' \subseteq vectors
    BY <1>18, BeginRebuildCases, ResetIndexCases DEF tables, Goes
  <2>2. IndexOK'
    BY <1>1, <2>1 DEF IndexOK
  <2>3. w \in Threads /\ Goes(w, Steps \ Stages) /\ JobFits(w)'
    BY <2>1, ThreadsDiffer, StepsOutsideStages DEF JobFits, Goes, Stages
  <2>4. QED
    BY <2>1, <2>2, <2>3, QuietStep
<1>19. ASSUME NEW w \in Workers, ClearAll(w)
       PROVE  IInv'
  BY <1>19, ClearAllType
<1>20. ASSUME NEW w \in Workers, Reingest(w)
       PROVE  IInv'
  BY <1>20, ReingestCases, TakeType, ThreadsDiffer
<1>21. ASSUME NEW w \in Workers, EndRebuild(w)
       PROVE  IInv'
  <2>1. /\ UNCHANGED <<docs, nextDoc, chunks, vectors, meta, files, lock, model, cut, crashes>>
        /\ Leaves(w) /\ w \in Threads
    BY <1>21, EndRebuildCases, ThreadsDiffer DEF tables
  <2>2. IndexOK'
    BY <1>1, <2>1 DEF IndexOK
  <2>3. QED
    BY <2>1, <2>2, QuietStep
<1>22. ASSUME NEW w \in Workers, VectorSearch(w) \/ LexicalSearch(w) \/ Fetch(w)
       PROVE  IInv'
  <2>1. /\ UNCHANGED <<docs, nextDoc, chunks, vectors, meta, files, lock, model, cut, crashes>>
        /\ Goes(w, {"lexical", "fetch", "idle"}) /\ w \in Threads
    BY <1>22, SearchCases, ThreadsDiffer DEF tables, Goes
  <2>2. IndexOK'
    BY <1>1, <2>1 DEF IndexOK
  <2>3. Goes(w, Steps \ Stages) /\ JobFits(w)'
    BY <2>1, StepsOutsideStages DEF JobFits, Goes, Stages
  <2>4. QED
    BY <2>1, <2>2, <2>3, QuietStep
<1>23. CASE Restart
  BY <1>23, RestartType
<1>24. QED
  BY <1>3, <1>4, <1>5, <1>6, <1>7, <1>8, <1>9, <1>10, <1>11, <1>12, <1>13, <1>14, <1>15,
     <1>16, <1>17, <1>18, <1>19, <1>20, <1>21, <1>22, <1>23
     DEF Next, Request, UploadStep, WorkerStep, Ingest

(* Every row, vector and file belongs to a document id given out before,    *)
(* every chunk to a document with its content, and every thread is at a     *)
(* step with a job that fits it, in every state of every instance.          *)
THEOREM KnowledgeTypeCorrect == Spec => []TypeOK
<1>1. IInv => TypeOK
  BY DEF IInv
<1>2. QED
  BY <1>1, InitType, TypeStep, PTL DEF Spec

(* Ids are given out once, from 1 on.                                       *)
LEMMA Ids ==
    ASSUME IInv
    PROVE  /\ \A d \in docs : d.id # 0 /\ d.id # nextDoc
           /\ \A v \in vectors : v.row.doc # 0 /\ v.row.doc # nextDoc /\ v.model \in Models
           /\ \A c \in chunks : c.doc # nextDoc /\ \E d \in docs : d.id = c.doc
           /\ \A th \in Threads : job[th].id # nextDoc
           /\ \A th \in Threads : JobFits(th)
           /\ NoModel \notin Models /\ model \in Models
<1>1. TablesOK /\ IndexOK /\ ThreadsOK /\ IdsGiven /\ JobsFit
  BY IInvIs
<1>2. \A d \in docs : d.id # 0 /\ d.id # nextDoc
  BY <1>1 DEF TablesOK, Document, DocIds
<1>3. \A v \in vectors : v.row.doc # 0 /\ v.row.doc # nextDoc /\ v.model \in Models
  BY <1>1 DEF IndexOK, TablesOK
<1>4. \A th \in Threads : job[th].id # nextDoc
  BY <1>1 DEF ThreadsOK, IdsGiven, TablesOK, Job
<1>5. QED
  BY <1>1, <1>2, <1>3, <1>4, KnowledgeAssumption DEF TablesOK, IndexOK, JobsFit

-----------------------------------------------------------------------------
(* The models of the vectors.                                               *)

(* Whoever ingests or searches found an index that was empty or of the      *)
(* model of this process, and so it still is.                               *)

ModelHeld == \A th \in Threads :
    pc[th] \in Stages \cup {"add", "lexical"} => meta \in {NoModel, model}
(* The vectors of a document being ingested are of this process's model.    *)
OwnModel == \A th \in Threads : pc[th] \in Stages =>
    \A v \in vectors : v.row.doc = job[th].id => v.model = model

LEMMA ModelHeldStep == IInv /\ ModelHeld /\ [Next]_vars => ModelHeld'
<1> SUFFICES ASSUME IInv, ModelHeld, [Next]_vars PROVE ModelHeld'
  OBVIOUS
<1> USE DEF Goes, Leaves, Others, tables
<1>1. CASE UNCHANGED vars
  BY <1>1 DEF ModelHeld, Stages, Refused, vars, thread
<1>2. ASSUME NEW th \in Threads, CheckEmbeddingModel(th)
      PROVE  ModelHeld'
  BY <1>2, CheckCases, Ids, ThreadsDiffer DEF ModelHeld, Stages, Refused
<1>3. ASSUME NEW th \in Threads, AddDocument(th)
      PROVE  ModelHeld'
  BY <1>3, AddDocumentCases, Ids, ThreadsDiffer DEF ModelHeld, Stages, Refused
<1>4. ASSUME NEW th \in Threads, AddChunk(th)
      PROVE  ModelHeld'
  BY <1>4, AddChunkCases, Ids, ThreadsDiffer DEF ModelHeld, Stages, Refused, JobFits
<1>5. ASSUME NEW th \in Threads, ChunkWithoutDocument(th)
      PROVE  ModelHeld'
  BY <1>5, ChunkWithoutDocumentCases, Ids, ThreadsDiffer DEF ModelHeld, Stages, Refused
<1>6. ASSUME NEW th \in Threads, AddLocked(th)
      PROVE  ModelHeld'
  BY <1>6, AddLockedCases, Ids, ThreadsDiffer DEF ModelHeld, Stages, Refused, JobFits
<1>7. ASSUME NEW th \in Threads, Embed(th)
      PROVE  ModelHeld'
  BY <1>7, EmbedCases, Ids, ThreadsDiffer DEF ModelHeld, Stages, Refused, JobFits
<1>8. ASSUME NEW th \in Threads, SetMeta(th)
      PROVE  ModelHeld'
  BY <1>8, SetMetaCases, Ids, ThreadsDiffer DEF ModelHeld, Stages, Refused, JobFits
<1>9. ASSUME NEW th \in Threads, Undo(th)
      PROVE  ModelHeld'
  BY <1>9, UndoCases, Ids, ThreadsDiffer DEF ModelHeld, Stages, Refused, Deleted, JobFits
<1>10. ASSUME NEW th \in Threads, OtherCommit(th)
      PROVE  ModelHeld'
  BY <1>10 DEF OtherCommit, thread, ModelHeld, Stages, Refused
<1>11. ASSUME NEW c \in Contents, Upload(c)
      PROVE  ModelHeld'
  BY <1>11, UploadCases, Ids, ThreadsDiffer DEF ModelHeld, Stages, Refused
<1>12. CASE MoveFile
  BY <1>12, MoveFileCases, Ids, ThreadsDiffer DEF ModelHeld, Stages, Refused, JobFits
<1>13. CASE RecordFile
  BY <1>13, RecordFileCases, Ids, ThreadsDiffer DEF ModelHeld, Stages, Refused, JobFits
<1>14. ASSUME NEW w \in Workers, NEW id \in DocIds, UnlinkFile(w, id)
      PROVE  ModelHeld'
  BY <1>14, UnlinkFileCases, Ids, ThreadsDiffer DEF ModelHeld, Stages, Refused
<1>15. ASSUME NEW w \in Workers, RemoveVectors(w)
      PROVE  ModelHeld'
  BY <1>15, RemoveVectorsCases, Ids, ThreadsDiffer DEF ModelHeld, Stages, Refused, JobFits
<1>16. ASSUME NEW w \in Workers, DeleteRows(w)
      PROVE  ModelHeld'
  BY <1>16, DeleteRowsCases, Ids, ThreadsDiffer
     DEF ModelHeld, Stages, Refused, Deleted, JobFits
<1>17. ASSUME NEW w \in Workers, BeginRebuild(w)
      PROVE  ModelHeld'
  BY <1>17, BeginRebuildCases, Ids, ThreadsDiffer DEF ModelHeld, Stages, Refused
<1>18. ASSUME NEW w \in Workers, ResetIndex(w)
      PROVE  ModelHeld'
  BY <1>18, ResetIndexCases, Ids, ThreadsDiffer DEF ModelHeld, Stages, Refused
<1>19. ASSUME NEW w \in Workers, ClearAll(w)
      PROVE  ModelHeld'
  BY <1>19, ClearAllCases, Ids, ThreadsDiffer DEF ModelHeld, Stages, Refused
<1>20. ASSUME NEW w \in Workers, Reingest(w)
      PROVE  ModelHeld'
  BY <1>20, ReingestCases, Ids, ThreadsDiffer DEF ModelHeld, Stages, Refused
<1>21. ASSUME NEW w \in Workers, EndRebuild(w)
      PROVE  ModelHeld'
  BY <1>21, EndRebuildCases, Ids, ThreadsDiffer DEF ModelHeld, Stages, Refused
<1>22. ASSUME NEW w \in Workers, VectorSearch(w) \/ LexicalSearch(w) \/ Fetch(w)
      PROVE  ModelHeld'
  BY <1>22, SearchCases, Ids, ThreadsDiffer DEF ModelHeld, Stages, Refused
<1>23. CASE Restart
  BY <1>23, RestartCases, Ids, ThreadsDiffer DEF ModelHeld, Stages, Refused
<1>24. QED
  BY <1>1, <1>2, <1>3, <1>4, <1>5, <1>6, <1>7, <1>8, <1>9, <1>10, <1>11, <1>12,
     <1>13, <1>14, <1>15, <1>16, <1>17, <1>18, <1>19, <1>20, <1>21, <1>22, <1>23
     DEF Next, Request, UploadStep, WorkerStep, Ingest

LEMMA OwnModelStep == IInv /\ OwnModel /\ [Next]_vars => OwnModel'
<1> SUFFICES ASSUME IInv, OwnModel, [Next]_vars PROVE OwnModel'
  OBVIOUS
<1> USE DEF Goes, Leaves, Others, tables
<1>1. CASE UNCHANGED vars
  BY <1>1 DEF OwnModel, Stages, vars, thread
<1>2. ASSUME NEW th \in Threads, CheckEmbeddingModel(th)
      PROVE  OwnModel'
  BY <1>2, CheckCases, Ids, ThreadsDiffer DEF OwnModel, Stages
<1>3. ASSUME NEW th \in Threads, AddDocument(th)
      PROVE  OwnModel'
  BY <1>3, AddDocumentCases, Ids, ThreadsDiffer DEF OwnModel, Stages
<1>4. ASSUME NEW th \in Threads, AddChunk(th)
      PROVE  OwnModel'
  BY <1>4, AddChunkCases, Ids, ThreadsDiffer DEF OwnModel, Stages, JobFits
<1>5. ASSUME NEW th \in Threads, ChunkWithoutDocument(th)
      PROVE  OwnModel'
  BY <1>5, ChunkWithoutDocumentCases, Ids, ThreadsDiffer DEF OwnModel, Stages
<1>6. ASSUME NEW th \in Threads, AddLocked(th)
      PROVE  OwnModel'
  BY <1>6, AddLockedCases, Ids, ThreadsDiffer DEF OwnModel, Stages, JobFits
<1>7. ASSUME NEW th \in Threads, Embed(th)
      PROVE  OwnModel'
  BY <1>7, EmbedCases, Ids, ThreadsDiffer DEF OwnModel, Stages, JobFits
<1>8. ASSUME NEW th \in Threads, SetMeta(th)
      PROVE  OwnModel'
  BY <1>8, SetMetaCases, Ids, ThreadsDiffer DEF OwnModel, Stages, JobFits
<1>9. ASSUME NEW th \in Threads, Undo(th)
      PROVE  OwnModel'
  BY <1>9, UndoCases, Ids, ThreadsDiffer DEF OwnModel, Stages, Deleted, JobFits
<1>10. ASSUME NEW th \in Threads, OtherCommit(th)
      PROVE  OwnModel'
  BY <1>10 DEF OtherCommit, thread, OwnModel, Stages
<1>11. ASSUME NEW c \in Contents, Upload(c)
      PROVE  OwnModel'
  BY <1>11, UploadCases, Ids, ThreadsDiffer DEF OwnModel, Stages
<1>12. CASE MoveFile
  BY <1>12, MoveFileCases, Ids, ThreadsDiffer DEF OwnModel, Stages, JobFits
<1>13. CASE RecordFile
  BY <1>13, RecordFileCases, Ids, ThreadsDiffer DEF OwnModel, Stages, JobFits
<1>14. ASSUME NEW w \in Workers, NEW id \in DocIds, UnlinkFile(w, id)
      PROVE  OwnModel'
  BY <1>14, UnlinkFileCases, Ids, ThreadsDiffer DEF OwnModel, Stages
<1>15. ASSUME NEW w \in Workers, RemoveVectors(w)
      PROVE  OwnModel'
  BY <1>15, RemoveVectorsCases, Ids, ThreadsDiffer DEF OwnModel, Stages, JobFits
<1>16. ASSUME NEW w \in Workers, DeleteRows(w)
      PROVE  OwnModel'
  BY <1>16, DeleteRowsCases, Ids, ThreadsDiffer DEF OwnModel, Stages, Deleted, JobFits
<1>17. ASSUME NEW w \in Workers, BeginRebuild(w)
      PROVE  OwnModel'
  BY <1>17, BeginRebuildCases, Ids, ThreadsDiffer DEF OwnModel, Stages
<1>18. ASSUME NEW w \in Workers, ResetIndex(w)
      PROVE  OwnModel'
  BY <1>18, ResetIndexCases, Ids, ThreadsDiffer DEF OwnModel, Stages
<1>19. ASSUME NEW w \in Workers, ClearAll(w)
      PROVE  OwnModel'
  BY <1>19, ClearAllCases, Ids, ThreadsDiffer DEF OwnModel, Stages
<1>20. ASSUME NEW w \in Workers, Reingest(w)
      PROVE  OwnModel'
  BY <1>20, ReingestCases, Ids, ThreadsDiffer DEF OwnModel, Stages
<1>21. ASSUME NEW w \in Workers, EndRebuild(w)
      PROVE  OwnModel'
  BY <1>21, EndRebuildCases, Ids, ThreadsDiffer DEF OwnModel, Stages
<1>22. ASSUME NEW w \in Workers, VectorSearch(w) \/ LexicalSearch(w) \/ Fetch(w)
      PROVE  OwnModel'
  BY <1>22, SearchCases, Ids, ThreadsDiffer DEF OwnModel, Stages
<1>23. CASE Restart
  BY <1>23, RestartCases, Ids, ThreadsDiffer DEF OwnModel, Stages
<1>24. QED
  BY <1>1, <1>2, <1>3, <1>4, <1>5, <1>6, <1>7, <1>8, <1>9, <1>10, <1>11, <1>12,
     <1>13, <1>14, <1>15, <1>16, <1>17, <1>18, <1>19, <1>20, <1>21, <1>22, <1>23
     DEF Next, Request, UploadStep, WorkerStep, Ingest

(* What the others work on they go on working on.                           *)
LEMMA StillInProgress ==
    ASSUME NEW th \in Threads, Others(th), NEW id, InProgress(id),
           pc[th] # "clear", job[th].id # id
    PROVE  InProgress(id)'
BY DEF InProgress, Others

LEMMA OneModelStep == IInv /\ ModelHeld /\ OwnModel /\ OneModel /\ [Next]_vars => OneModel'
<1> SUFFICES ASSUME IInv, ModelHeld, OwnModel, OneModel, [Next]_vars PROVE OneModel'
  OBVIOUS
<1> USE DEF Goes, Leaves, Others, tables
<1>1. CASE UNCHANGED vars
  BY <1>1 DEF OneModel, InProgress, Ingesting, Stages, vars, thread
<1>2. ASSUME NEW th \in Threads, CheckEmbeddingModel(th)
      PROVE  OneModel'
  <2>1. /\ pc[th] = "check" /\ Others(th) /\ UNCHANGED <<chunks, vectors, meta, cut>>
        /\ job[th].id = 0
    BY <1>2, CheckCases, Ids DEF JobFits
  <2>2. QED
    BY <2>1, Ids, StillInProgress DEF OneModel
<1>3. ASSUME NEW th \in Threads, AddDocument(th)
      PROVE  OneModel'
  <2>1. /\ pc[th] = "add" /\ Others(th) /\ UNCHANGED <<chunks, vectors, meta, cut>>
        /\ job[th].id = 0
    BY <1>3, AddDocumentCases, Ids DEF JobFits
  <2>2. QED
    BY <2>1, Ids, StillInProgress DEF OneModel
<1>4. ASSUME NEW th \in Threads, AddChunk(th)
      PROVE  OneModel'
  <2>1. /\ pc[th] = "chunk" /\ Others(th) /\ UNCHANGED <<vectors, meta, cut>>
        /\ job'[th] = job[th] /\ pc'[th] \in {"chunk", "embed"}
        /\ \A c \in chunks' \ chunks : c.doc = job[th].id
    BY <1>4, AddChunkCases DEF Stored
  <2>2. InProgress(job[th].id)'
    BY <2>1 DEF InProgress, Ingesting
  <2>3. QED
    BY <2>1, <2>2, StillInProgress DEF OneModel
<1>5. ASSUME NEW th \in Threads, ChunkWithoutDocument(th)
      PROVE  OneModel'
  BY <1>5, ChunkWithoutDocumentCases, Ids, ThreadsDiffer
     DEF OneModel, InProgress, Ingesting, Stages
<1>6. ASSUME NEW th \in Threads, AddLocked(th)
      PROVE  OneModel'
  BY <1>6, AddLockedCases, Ids, ThreadsDiffer
     DEF OneModel, InProgress, Ingesting, Stages, JobFits
<1>7. ASSUME NEW th \in Threads, Embed(th)
      PROVE  OneModel'
  BY <1>7, EmbedCases, Ids, ThreadsDiffer
     DEF OneModel, InProgress, Ingesting, Stages, JobFits
<1>8. ASSUME NEW th \in Threads, SetMeta(th)
      PROVE  OneModel'
  <2>1. /\ pc[th] = "meta" /\ Others(th) /\ UNCHANGED <<chunks, vectors, model, cut>>
    BY <1>8, SetMetaCases
  <2>2. meta \in {NoModel, model} /\ \A v \in vectors : v.row.doc = job[th].id => v.model = model
    BY <2>1 DEF ModelHeld, OwnModel, Stages
  <2>3. CASE meta' = model
    BY <2>1, <2>2, <2>3, Ids, StillInProgress DEF OneModel
  <2>4. CASE Goes(th, {"undo"}) /\ meta' = meta
    <3>1. InProgress(job[th].id)'
      BY <2>4 DEF InProgress, Ingesting
    <3>2. QED
      BY <2>1, <2>4, <3>1, StillInProgress DEF OneModel
  <2>5. QED
    BY <1>8, <2>3, <2>4, SetMetaCases
<1>9. ASSUME NEW th \in Threads, Undo(th)
      PROVE  OneModel'
  BY <1>9, UndoCases, Ids, ThreadsDiffer
     DEF OneModel, InProgress, Ingesting, Stages, Deleted, JobFits
<1>10. ASSUME NEW th \in Threads, OtherCommit(th)
      PROVE  OneModel'
  BY <1>10 DEF OtherCommit, thread, OneModel, InProgress, Ingesting, Stages
<1>11. ASSUME NEW c \in Contents, Upload(c)
      PROVE  OneModel'
  BY <1>11, UploadCases, Ids, ThreadsDiffer DEF OneModel, InProgress, Ingesting, Stages
<1>12. CASE MoveFile
  BY <1>12, MoveFileCases, Ids, ThreadsDiffer
     DEF OneModel, InProgress, Ingesting, Stages, JobFits
<1>13. CASE RecordFile
  BY <1>13, RecordFileCases, Ids, ThreadsDiffer
     DEF OneModel, InProgress, Ingesting, Stages, JobFits
<1>14. ASSUME NEW w \in Workers, NEW id \in DocIds, UnlinkFile(w, id)
      PROVE  OneModel'
  BY <1>14, UnlinkFileCases, Ids, ThreadsDiffer DEF OneModel, InProgress, Ingesting, Stages
<1>15. ASSUME NEW w \in Workers, RemoveVectors(w)
      PROVE  OneModel'
  BY <1>15, RemoveVectorsCases, Ids, ThreadsDiffer
     DEF OneModel, InProgress, Ingesting, Stages, JobFits
<1>16. ASSUME NEW w \in Workers, DeleteRows(w)
      PROVE  OneModel'
  BY <1>16, DeleteRowsCases, Ids, ThreadsDiffer
     DEF OneModel, InProgress, Ingesting, Stages, Deleted, JobFits
<1>17. ASSUME NEW w \in Workers, BeginRebuild(w)
      PROVE  OneModel'
  BY <1>17, BeginRebuildCases, Ids, ThreadsDiffer
     DEF OneModel, InProgress, Ingesting, Stages
<1>18. ASSUME NEW w \in Workers, ResetIndex(w)
      PROVE  OneModel'
  BY <1>18, ResetIndexCases, Ids, ThreadsDiffer DEF OneModel, InProgress, Ingesting, Stages
<1>19. ASSUME NEW w \in Workers, ClearAll(w)
      PROVE  OneModel'
  BY <1>19, ClearAllCases, Ids, ThreadsDiffer DEF OneModel, InProgress, Ingesting, Stages
<1>20. ASSUME NEW w \in Workers, Reingest(w)
      PROVE  OneModel'
  BY <1>20, ReingestCases, Ids, ThreadsDiffer DEF OneModel, InProgress, Ingesting, Stages
<1>21. ASSUME NEW w \in Workers, EndRebuild(w)
      PROVE  OneModel'
  BY <1>21, EndRebuildCases, Ids, ThreadsDiffer DEF OneModel, InProgress, Ingesting, Stages
<1>22. ASSUME NEW w \in Workers, VectorSearch(w) \/ LexicalSearch(w) \/ Fetch(w)
      PROVE  OneModel'
  BY <1>22, SearchCases, Ids, ThreadsDiffer DEF OneModel, InProgress, Ingesting, Stages
<1>23. CASE Restart
  BY <1>23, RestartCases, Ids, ThreadsDiffer DEF OneModel, InProgress, Ingesting, Stages
<1>24. QED
  BY <1>1, <1>2, <1>3, <1>4, <1>5, <1>6, <1>7, <1>8, <1>9, <1>10, <1>11, <1>12,
     <1>13, <1>14, <1>15, <1>16, <1>17, <1>18, <1>19, <1>20, <1>21, <1>22, <1>23
     DEF Next, Request, UploadStep, WorkerStep, Ingest

-----------------------------------------------------------------------------
(* The vectors and the rows of a document.                                  *)

(* A document that lacks vectors is being ingested up to its embedding, is  *)
(* about to be undone or deleted, or has been given up.                     *)
VectorsWhole(d) == \A c \in ChunksOf(d.content) : \E m \in Models : Point(Stored(d.id, c), m) \in vectors
VectorsKept == \A d \in docs :
    \/ d.id \in cut \/ VectorsWhole(d)
    \/ \E th \in Threads :
         \/ pc[th] = "clear"
         \/ job[th].id = d.id /\ pc[th] \in {"chunk", "embed", "undo", "cascade"}
ChunksWhole(d) == \A c \in ChunksOf(d.content) : Stored(d.id, c) \in chunks
(* A document that lacks rows of chunks is being written, or given up.      *)
RowsKept == \A d \in docs :
    \/ d.id \in cut \/ ChunksWhole(d)
    \/ \E th \in Threads : job[th].id = d.id /\ pc[th] = "chunk"

LEMMA VectorsKeptStep == IInv /\ VectorsKept /\ [Next]_vars => VectorsKept'
<1> SUFFICES ASSUME IInv, VectorsKept, [Next]_vars PROVE VectorsKept'
  OBVIOUS
<1> USE DEF Goes, Leaves, Others, tables
<1>1. CASE UNCHANGED vars
  BY <1>1 DEF VectorsKept, VectorsWhole, vars, thread
<1>2. ASSUME NEW th \in Threads, CheckEmbeddingModel(th)
      PROVE  VectorsKept'
  BY <1>2, CheckCases, Ids, ThreadsDiffer DEF VectorsKept, VectorsWhole
<1>3. ASSUME NEW th \in Threads, AddDocument(th)
      PROVE  VectorsKept'
  BY <1>3, AddDocumentCases, Ids, ThreadsDiffer DEF VectorsKept, VectorsWhole
<1>4. ASSUME NEW th \in Threads, AddChunk(th)
      PROVE  VectorsKept'
  BY <1>4, AddChunkCases, Ids, ThreadsDiffer DEF VectorsKept, VectorsWhole, JobFits
<1>5. ASSUME NEW th \in Threads, ChunkWithoutDocument(th)
      PROVE  VectorsKept'
  BY <1>5, ChunkWithoutDocumentCases, Ids, ThreadsDiffer DEF VectorsKept, VectorsWhole
<1>6. ASSUME NEW th \in Threads, AddLocked(th)
      PROVE  VectorsKept'
  BY <1>6, AddLockedCases, Ids, ThreadsDiffer DEF VectorsKept, VectorsWhole, JobFits
<1>7. ASSUME NEW th \in Threads, Embed(th)
      PROVE  VectorsKept'
  <2>1. /\ pc[th] = "embed" /\ Others(th) /\ UNCHANGED <<cut, docs>>
        /\ vectors \subseteq vectors' /\ job'[th] = job[th] /\ pc'[th] \in {"meta", "undo"}
        /\ pc'[th] = "meta" => \A c \in ChunksOf(job[th].content) :
                                 Point(Stored(job[th].id, c), model) \in vectors'
    BY <1>7, EmbedCases
  <2>2. ASSUME NEW d \in docs, d.id = job[th].id, pc'[th] = "meta"
        PROVE  VectorsWhole(d)'
    <3>1. d.content = job[th].content /\ model \in Models
      BY <2>1, <2>2, Ids DEF JobFits, Stages
    <3>2. QED
      BY <2>1, <2>2, <3>1 DEF VectorsWhole
  <2>3. \A d \in docs : VectorsWhole(d) => VectorsWhole(d)'
    BY <2>1 DEF VectorsWhole
  <2>4. QED
    BY <2>1, <2>2, <2>3 DEF VectorsKept
<1>8. ASSUME NEW th \in Threads, SetMeta(th)
      PROVE  VectorsKept'
  BY <1>8, SetMetaCases, Ids, ThreadsDiffer DEF VectorsKept, VectorsWhole, JobFits
<1>9. ASSUME NEW th \in Threads, Undo(th)
      PROVE  VectorsKept'
  BY <1>9, UndoCases, Ids, ThreadsDiffer DEF VectorsKept, VectorsWhole, Deleted, JobFits
<1>10. ASSUME NEW th \in Threads, OtherCommit(th)
      PROVE  VectorsKept'
  BY <1>10 DEF OtherCommit, thread, VectorsKept, VectorsWhole
<1>11. ASSUME NEW c \in Contents, Upload(c)
      PROVE  VectorsKept'
  BY <1>11, UploadCases, Ids, ThreadsDiffer DEF VectorsKept, VectorsWhole
<1>12. CASE MoveFile
  BY <1>12, MoveFileCases, Ids, ThreadsDiffer DEF VectorsKept, VectorsWhole, JobFits
<1>13. CASE RecordFile
  <2>1. /\ pc[Loop] = "record" /\ Others(Loop) /\ UNCHANGED <<cut, vectors>> /\ Loop \in Threads
        /\ \A d \in docs' : \E e \in docs : e.id = d.id /\ e.content = d.content
    BY <1>13, RecordFileCases, ThreadsDiffer
  <2>2. QED
    BY <2>1 DEF VectorsKept, VectorsWhole
<1>14. ASSUME NEW w \in Workers, NEW id \in DocIds, UnlinkFile(w, id)
      PROVE  VectorsKept'
  BY <1>14, UnlinkFileCases, Ids, ThreadsDiffer DEF VectorsKept, VectorsWhole
<1>15. ASSUME NEW w \in Workers, RemoveVectors(w)
      PROVE  VectorsKept'
  <2>1. pc[w] = "remove" /\ w \in Threads /\ docs' = docs
    BY <1>15, RemoveVectorsCases, ThreadsDiffer
  <2>2. CASE /\ vectors' = {v \in vectors : v.row \notin {c \in chunks : c.doc = job[w].id}}
             /\ Goes(w, {"cascade"}) /\ UNCHANGED cut
    <3>1. ASSUME NEW d \in docs, d.id # job[w].id, VectorsWhole(d)
          PROVE  VectorsWhole(d)'
      BY <2>2, <3>1 DEF VectorsWhole, Point, Stored
    <3>2. QED
      BY <2>1, <2>2, <3>1 DEF VectorsKept
  <2>3. CASE cut' = cut \union {job[w].id} /\ Leaves(w) /\ UNCHANGED vectors
    BY <2>1, <2>3 DEF VectorsKept, VectorsWhole
  <2>4. QED
    BY <1>15, <2>2, <2>3, RemoveVectorsCases
<1>16. ASSUME NEW w \in Workers, DeleteRows(w)
      PROVE  VectorsKept'
  BY <1>16, DeleteRowsCases, Ids, ThreadsDiffer
     DEF VectorsKept, VectorsWhole, Deleted, JobFits
<1>17. ASSUME NEW w \in Workers, BeginRebuild(w)
      PROVE  VectorsKept'
  BY <1>17, BeginRebuildCases, Ids, ThreadsDiffer DEF VectorsKept, VectorsWhole
<1>18. ASSUME NEW w \in Workers, ResetIndex(w)
      PROVE  VectorsKept'
  BY <1>18, ResetIndexCases, Ids, ThreadsDiffer DEF VectorsKept, VectorsWhole
<1>19. ASSUME NEW w \in Workers, ClearAll(w)
      PROVE  VectorsKept'
  BY <1>19, ClearAllCases, Ids, ThreadsDiffer DEF VectorsKept, VectorsWhole
<1>20. ASSUME NEW w \in Workers, Reingest(w)
      PROVE  VectorsKept'
  BY <1>20, ReingestCases, Ids, ThreadsDiffer DEF VectorsKept, VectorsWhole
<1>21. ASSUME NEW w \in Workers, EndRebuild(w)
      PROVE  VectorsKept'
  BY <1>21, EndRebuildCases, Ids, ThreadsDiffer DEF VectorsKept, VectorsWhole
<1>22. ASSUME NEW w \in Workers, VectorSearch(w) \/ LexicalSearch(w) \/ Fetch(w)
      PROVE  VectorsKept'
  BY <1>22, SearchCases, Ids, ThreadsDiffer DEF VectorsKept, VectorsWhole
<1>23. CASE Restart
  BY <1>23, RestartCases, Ids, ThreadsDiffer DEF VectorsKept, VectorsWhole
<1>24. QED
  BY <1>1, <1>2, <1>3, <1>4, <1>5, <1>6, <1>7, <1>8, <1>9, <1>10, <1>11, <1>12,
     <1>13, <1>14, <1>15, <1>16, <1>17, <1>18, <1>19, <1>20, <1>21, <1>22, <1>23
     DEF Next, Request, UploadStep, WorkerStep, Ingest

LEMMA RowsKeptStep == IInv /\ RowsKept /\ [Next]_vars => RowsKept'
<1> SUFFICES ASSUME IInv, RowsKept, [Next]_vars PROVE RowsKept'
  OBVIOUS
<1> USE DEF Goes, Leaves, Others, tables
<1>1. CASE UNCHANGED vars
  BY <1>1 DEF RowsKept, ChunksWhole, vars, thread
<1>2. ASSUME NEW th \in Threads, CheckEmbeddingModel(th)
      PROVE  RowsKept'
  BY <1>2, CheckCases, Ids, ThreadsDiffer DEF RowsKept, ChunksWhole
<1>3. ASSUME NEW th \in Threads, AddDocument(th)
      PROVE  RowsKept'
  <2>1. /\ pc[th] = "add" /\ Others(th) /\ cut' = cut /\ chunks' = chunks
        /\ job'[th].id = nextDoc
        /\ \/ pc'[th] = "chunk"
           \/ ChunksOf(job[th].content) = {}
    BY <1>3, AddDocumentCases
  <2>2. ASSUME NEW d \in docs
        PROVE  d.id \in cut' \/ ChunksWhole(d)'
               \/ \E u \in Threads : job'[u].id = d.id /\ pc'[u] = "chunk"
    BY <2>1 DEF RowsKept, ChunksWhole
  <2>3. ASSUME NEW d \in docs', d \notin docs
        PROVE  d.id \in cut' \/ ChunksWhole(d)'
               \/ \E u \in Threads : job'[u].id = d.id /\ pc'[u] = "chunk"
    <3>1. d.id = nextDoc /\ d.content = job[th].content
      BY <1>3, <2>3, AddDocumentCases
    <3>2. QED
      BY <2>1, <3>1 DEF ChunksWhole
  <2>4. QED
    BY <2>2, <2>3 DEF RowsKept
<1>4. ASSUME NEW th \in Threads, AddChunk(th)
      PROVE  RowsKept'
  <2>1. /\ pc[th] = "chunk" /\ Others(th) /\ cut' = cut /\ docs' = docs
        /\ chunks \subseteq chunks' /\ job'[th] = job[th] /\ pc'[th] \in {"chunk", "embed"}
        /\ pc'[th] = "embed" =>
             \A c \in ChunksOf(job[th].content) : Stored(job[th].id, c) \in chunks'
    BY <1>4, AddChunkCases
  <2>2. ASSUME NEW d \in docs
        PROVE  d.id \in cut' \/ ChunksWhole(d)'
               \/ \E u \in Threads : job'[u].id = d.id /\ pc'[u] = "chunk"
    <3>1. CASE d.id = job[th].id
      <4>1. d.content = job[th].content
        BY <2>1, <3>1, Ids DEF JobFits, Stages
      <4>2. QED
        BY <2>1, <3>1, <4>1 DEF ChunksWhole
    <3>2. CASE d.id # job[th].id
      BY <2>1, <3>2 DEF RowsKept, ChunksWhole
    <3>3. QED
      BY <3>1, <3>2
  <2>3. QED
    BY <2>1, <2>2 DEF RowsKept
<1>5. ASSUME NEW th \in Threads, ChunkWithoutDocument(th)
      PROVE  RowsKept'
  BY <1>5, ChunkWithoutDocumentCases, Ids, ThreadsDiffer DEF RowsKept, ChunksWhole
<1>6. ASSUME NEW th \in Threads, AddLocked(th)
      PROVE  RowsKept'
  BY <1>6, AddLockedCases, Ids, ThreadsDiffer DEF RowsKept, ChunksWhole, JobFits
<1>7. ASSUME NEW th \in Threads, Embed(th)
      PROVE  RowsKept'
  <2>1. /\ pc[th] = "embed" /\ Others(th) /\ UNCHANGED <<cut, docs, chunks>>
        /\ pc'[th] \in {"meta", "undo"}
    BY <1>7, EmbedCases
  <2>2. QED
    BY <2>1 DEF RowsKept, ChunksWhole
<1>8. ASSUME NEW th \in Threads, SetMeta(th)
      PROVE  RowsKept'
  BY <1>8, SetMetaCases, Ids, ThreadsDiffer DEF RowsKept, ChunksWhole, JobFits
<1>9. ASSUME NEW th \in Threads, Undo(th)
      PROVE  RowsKept'
  <2>1. /\ pc[th] # "chunk" /\ Others(th) /\ th \in Threads /\ pc'[th] # "chunk"
        /\ \/ Deleted(job[th].id) /\ cut' = cut
           \/ cut \subseteq cut' /\ UNCHANGED <<docs, chunks>>
    BY <1>9, UndoCases, ThreadsDiffer
  <2>2. ASSUME NEW d \in docs', ChunksWhole(d)
        PROVE  ChunksWhole(d)'
    BY <2>1, <2>2 DEF ChunksWhole, Deleted, Stored
  <2>3. docs' \subseteq docs
    BY <2>1 DEF Deleted
  <2>4. QED
    BY <2>1, <2>2, <2>3 DEF RowsKept
<1>10. ASSUME NEW th \in Threads, OtherCommit(th)
      PROVE  RowsKept'
  BY <1>10 DEF OtherCommit, thread, RowsKept, ChunksWhole
<1>11. ASSUME NEW c \in Contents, Upload(c)
      PROVE  RowsKept'
  BY <1>11, UploadCases, Ids, ThreadsDiffer DEF RowsKept, ChunksWhole
<1>12. CASE MoveFile
  BY <1>12, MoveFileCases, Ids, ThreadsDiffer DEF RowsKept, ChunksWhole, JobFits
<1>13. CASE RecordFile
  <2>1. /\ pc[Loop] = "record" /\ Others(Loop) /\ UNCHANGED <<cut, chunks>> /\ Loop \in Threads
        /\ \A d \in docs' : \E e \in docs : e.id = d.id /\ e.content = d.content
    BY <1>13, RecordFileCases, ThreadsDiffer
  <2>2. QED
    BY <2>1 DEF RowsKept, ChunksWhole
<1>14. ASSUME NEW w \in Workers, NEW id \in DocIds, UnlinkFile(w, id)
      PROVE  RowsKept'
  BY <1>14, UnlinkFileCases, Ids, ThreadsDiffer DEF RowsKept, ChunksWhole
<1>15. ASSUME NEW w \in Workers, RemoveVectors(w)
      PROVE  RowsKept'
  BY <1>15, RemoveVectorsCases, Ids, ThreadsDiffer DEF RowsKept, ChunksWhole, JobFits
<1>16. ASSUME NEW w \in Workers, DeleteRows(w)
      PROVE  RowsKept'
  <2>1. /\ pc[w] # "chunk" /\ Others(w) /\ w \in Threads /\ pc'[w] # "chunk"
        /\ \/ Deleted(job[w].id) /\ cut' = cut
           \/ cut \subseteq cut' /\ UNCHANGED <<docs, chunks>>
    BY <1>16, DeleteRowsCases, ThreadsDiffer
  <2>2. ASSUME NEW d \in docs', ChunksWhole(d)
        PROVE  ChunksWhole(d)'
    BY <2>1, <2>2 DEF ChunksWhole, Deleted, Stored
  <2>3. docs' \subseteq docs
    BY <2>1 DEF Deleted
  <2>4. QED
    BY <2>1, <2>2, <2>3 DEF RowsKept
<1>17. ASSUME NEW w \in Workers, BeginRebuild(w)
      PROVE  RowsKept'
  BY <1>17, BeginRebuildCases, Ids, ThreadsDiffer DEF RowsKept, ChunksWhole
<1>18. ASSUME NEW w \in Workers, ResetIndex(w)
      PROVE  RowsKept'
  BY <1>18, ResetIndexCases, Ids, ThreadsDiffer DEF RowsKept, ChunksWhole
<1>19. ASSUME NEW w \in Workers, ClearAll(w)
      PROVE  RowsKept'
  BY <1>19, ClearAllCases, Ids, ThreadsDiffer DEF RowsKept, ChunksWhole
<1>20. ASSUME NEW w \in Workers, Reingest(w)
      PROVE  RowsKept'
  BY <1>20, ReingestCases, Ids, ThreadsDiffer DEF RowsKept, ChunksWhole
<1>21. ASSUME NEW w \in Workers, EndRebuild(w)
      PROVE  RowsKept'
  BY <1>21, EndRebuildCases, Ids, ThreadsDiffer DEF RowsKept, ChunksWhole
<1>22. ASSUME NEW w \in Workers, VectorSearch(w) \/ LexicalSearch(w) \/ Fetch(w)
      PROVE  RowsKept'
  BY <1>22, SearchCases, Ids, ThreadsDiffer DEF RowsKept, ChunksWhole
<1>23. CASE Restart
  BY <1>23, RestartCases, Ids, ThreadsDiffer DEF RowsKept, ChunksWhole
<1>24. QED
  BY <1>1, <1>2, <1>3, <1>4, <1>5, <1>6, <1>7, <1>8, <1>9, <1>10, <1>11, <1>12,
     <1>13, <1>14, <1>15, <1>16, <1>17, <1>18, <1>19, <1>20, <1>21, <1>22, <1>23
     DEF Next, Request, UploadStep, WorkerStep, Ingest

-----------------------------------------------------------------------------
(* One content, two documents.                                              *)

(* A worker ingests only from the files of a rebuild; the upload that has   *)
(* not yet written its row is the only one of its content.                  *)
Sources == \A w \in Workers : pc[w] \in {"check", "add"} => job[w].source = "file"
NotUploaded == pc[Loop] \in {"check", "add"} =>
    \A d \in docs : d.content = job[Loop].content => d.source = "file"

LEMMA UploadedOnceStep ==
    IInv /\ Sources /\ NotUploaded /\ DuplicatesOnlyByRebuild /\ [Next]_vars
        => Sources' /\ NotUploaded' /\ DuplicatesOnlyByRebuild'
<1> SUFFICES ASSUME IInv, Sources, NotUploaded, DuplicatesOnlyByRebuild, [Next]_vars
             PROVE  Sources' /\ NotUploaded' /\ DuplicatesOnlyByRebuild'
  OBVIOUS
<1> USE DEF Goes, Leaves, Others, tables
<1>1. CASE UNCHANGED vars
  BY <1>1 DEF Sources, NotUploaded, DuplicatesOnlyByRebuild, vars, thread
<1>2. ASSUME NEW th \in Threads, CheckEmbeddingModel(th)
      PROVE  Sources' /\ NotUploaded' /\ DuplicatesOnlyByRebuild'
  BY <1>2, CheckCases, Ids, ThreadsDiffer DEF Sources, NotUploaded, DuplicatesOnlyByRebuild
<1>3. ASSUME NEW th \in Threads, AddDocument(th)
      PROVE  Sources' /\ NotUploaded' /\ DuplicatesOnlyByRebuild'
  <2>1. /\ pc[th] = "add" /\ Others(th) /\ pc'[th] \notin {"check", "add"}
        /\ docs \subseteq docs'
    BY <1>3, AddDocumentCases
  <2>2. ASSUME NEW d \in docs', d \notin docs
        PROVE  d.content = job[th].content /\ d.source = job[th].source
    BY <1>3, <2>2, AddDocumentCases
  <2>3. Sources'
    BY <2>1, ThreadsDiffer DEF Sources
  <2>4. th # Loop => job[th].source = "file"
    BY <2>1 DEF Sources, Threads
  <2>5. NotUploaded'
    BY <2>1, <2>2, <2>4, ThreadsDiffer DEF NotUploaded
  <2>6. ASSUME NEW d \in docs, NEW e \in docs', e \notin docs, d.content = e.content
        PROVE  "file" \in {d.source, e.source}
    BY <2>1, <2>2, <2>4, <2>6 DEF NotUploaded
  <2>7. \A d, e \in docs' : d \notin docs /\ e \notin docs => d.id = e.id
    BY <1>3, AddDocumentCases
  <2>8. DuplicatesOnlyByRebuild'
    BY <2>1, <2>6, <2>7 DEF DuplicatesOnlyByRebuild
  <2>9. QED
    BY <2>3, <2>5, <2>8
<1>4. ASSUME NEW th \in Threads, AddChunk(th)
      PROVE  Sources' /\ NotUploaded' /\ DuplicatesOnlyByRebuild'
  BY <1>4, AddChunkCases, Ids, ThreadsDiffer
     DEF Sources, NotUploaded, DuplicatesOnlyByRebuild, JobFits
<1>5. ASSUME NEW th \in Threads, ChunkWithoutDocument(th)
      PROVE  Sources' /\ NotUploaded' /\ DuplicatesOnlyByRebuild'
  BY <1>5, ChunkWithoutDocumentCases, Ids, ThreadsDiffer
     DEF Sources, NotUploaded, DuplicatesOnlyByRebuild
<1>6. ASSUME NEW th \in Threads, AddLocked(th)
      PROVE  Sources' /\ NotUploaded' /\ DuplicatesOnlyByRebuild'
  BY <1>6, AddLockedCases, Ids, ThreadsDiffer
     DEF Sources, NotUploaded, DuplicatesOnlyByRebuild, JobFits
<1>7. ASSUME NEW th \in Threads, Embed(th)
      PROVE  Sources' /\ NotUploaded' /\ DuplicatesOnlyByRebuild'
  BY <1>7, EmbedCases, Ids, ThreadsDiffer
     DEF Sources, NotUploaded, DuplicatesOnlyByRebuild, JobFits
<1>8. ASSUME NEW th \in Threads, SetMeta(th)
      PROVE  Sources' /\ NotUploaded' /\ DuplicatesOnlyByRebuild'
  BY <1>8, SetMetaCases, Ids, ThreadsDiffer
     DEF Sources, NotUploaded, DuplicatesOnlyByRebuild, JobFits
<1>9. ASSUME NEW th \in Threads, Undo(th)
      PROVE  Sources' /\ NotUploaded' /\ DuplicatesOnlyByRebuild'
  BY <1>9, UndoCases, Ids, ThreadsDiffer
     DEF Sources, NotUploaded, DuplicatesOnlyByRebuild, Deleted, JobFits
<1>10. ASSUME NEW th \in Threads, OtherCommit(th)
      PROVE  Sources' /\ NotUploaded' /\ DuplicatesOnlyByRebuild'
  BY <1>10 DEF OtherCommit, thread, Sources, NotUploaded, DuplicatesOnlyByRebuild
<1>11. ASSUME NEW c \in Contents, Upload(c)
      PROVE  Sources' /\ NotUploaded' /\ DuplicatesOnlyByRebuild'
  BY <1>11, UploadCases, Ids, ThreadsDiffer
     DEF Sources, NotUploaded, DuplicatesOnlyByRebuild
<1>12. CASE MoveFile
  BY <1>12, MoveFileCases, Ids, ThreadsDiffer
     DEF Sources, NotUploaded, DuplicatesOnlyByRebuild, JobFits
<1>13. CASE RecordFile
  BY <1>13, RecordFileCases, Ids, ThreadsDiffer
     DEF Sources, NotUploaded, DuplicatesOnlyByRebuild, JobFits
<1>14. ASSUME NEW w \in Workers, NEW id \in DocIds, UnlinkFile(w, id)
      PROVE  Sources' /\ NotUploaded' /\ DuplicatesOnlyByRebuild'
  BY <1>14, UnlinkFileCases, Ids, ThreadsDiffer
     DEF Sources, NotUploaded, DuplicatesOnlyByRebuild
<1>15. ASSUME NEW w \in Workers, RemoveVectors(w)
      PROVE  Sources' /\ NotUploaded' /\ DuplicatesOnlyByRebuild'
  BY <1>15, RemoveVectorsCases, Ids, ThreadsDiffer
     DEF Sources, NotUploaded, DuplicatesOnlyByRebuild, JobFits
<1>16. ASSUME NEW w \in Workers, DeleteRows(w)
      PROVE  Sources' /\ NotUploaded' /\ DuplicatesOnlyByRebuild'
  BY <1>16, DeleteRowsCases, Ids, ThreadsDiffer
     DEF Sources, NotUploaded, DuplicatesOnlyByRebuild, Deleted, JobFits
<1>17. ASSUME NEW w \in Workers, BeginRebuild(w)
      PROVE  Sources' /\ NotUploaded' /\ DuplicatesOnlyByRebuild'
  BY <1>17, BeginRebuildCases, Ids, ThreadsDiffer
     DEF Sources, NotUploaded, DuplicatesOnlyByRebuild
<1>18. ASSUME NEW w \in Workers, ResetIndex(w)
      PROVE  Sources' /\ NotUploaded' /\ DuplicatesOnlyByRebuild'
  BY <1>18, ResetIndexCases, Ids, ThreadsDiffer
     DEF Sources, NotUploaded, DuplicatesOnlyByRebuild
<1>19. ASSUME NEW w \in Workers, ClearAll(w)
      PROVE  Sources' /\ NotUploaded' /\ DuplicatesOnlyByRebuild'
  BY <1>19, ClearAllCases, Ids, ThreadsDiffer
     DEF Sources, NotUploaded, DuplicatesOnlyByRebuild
<1>20. ASSUME NEW w \in Workers, Reingest(w)
      PROVE  Sources' /\ NotUploaded' /\ DuplicatesOnlyByRebuild'
  BY <1>20, ReingestCases, Ids, ThreadsDiffer
     DEF Sources, NotUploaded, DuplicatesOnlyByRebuild
<1>21. ASSUME NEW w \in Workers, EndRebuild(w)
      PROVE  Sources' /\ NotUploaded' /\ DuplicatesOnlyByRebuild'
  BY <1>21, EndRebuildCases, Ids, ThreadsDiffer
     DEF Sources, NotUploaded, DuplicatesOnlyByRebuild
<1>22. ASSUME NEW w \in Workers, VectorSearch(w) \/ LexicalSearch(w) \/ Fetch(w)
      PROVE  Sources' /\ NotUploaded' /\ DuplicatesOnlyByRebuild'
  BY <1>22, SearchCases, Ids, ThreadsDiffer
     DEF Sources, NotUploaded, DuplicatesOnlyByRebuild
<1>23. CASE Restart
  BY <1>23, RestartCases, Ids, ThreadsDiffer
     DEF Sources, NotUploaded, DuplicatesOnlyByRebuild
<1>24. QED
  BY <1>1, <1>2, <1>3, <1>4, <1>5, <1>6, <1>7, <1>8, <1>9, <1>10, <1>11, <1>12,
     <1>13, <1>14, <1>15, <1>16, <1>17, <1>18, <1>19, <1>20, <1>21, <1>22, <1>23
     DEF Next, Request, UploadStep, WorkerStep, Ingest

-----------------------------------------------------------------------------
(* The permanent files.                                                     *)

(* A document has no recorded file before its upload ends, and a deletion   *)
(* leaves a file that is not recorded where it is.                          *)
NotRecorded == pc[Loop] \in Stages \cup {"move", "record"} =>
    \A d \in docs : d.id = job[Loop].id => ~d.recorded
Filed == pc[Loop] = "record" => job[Loop].id \in files
(* A recorded file is gone only when its document is being deleted, or its  *)
(* deletion was given up.                                                   *)
RecordsKept == \A d \in docs : d.recorded =>
    \/ d.id \in files \cup cut
    \/ \E th \in Threads : job[th].id = d.id /\ pc[th] \in {"remove", "cascade"}

LEMMA NotRecordedStep == IInv /\ NotRecorded /\ [Next]_vars => NotRecorded'
<1> SUFFICES ASSUME IInv, NotRecorded, [Next]_vars PROVE NotRecorded'
  OBVIOUS
<1> USE DEF Goes, Leaves, Others, tables
<1>1. CASE UNCHANGED vars
  BY <1>1 DEF NotRecorded, Stages, vars, thread
<1>2. ASSUME NEW th \in Threads, CheckEmbeddingModel(th)
      PROVE  NotRecorded'
  BY <1>2, CheckCases, Ids, ThreadsDiffer DEF NotRecorded, Stages
<1>3. ASSUME NEW th \in Threads, AddDocument(th)
      PROVE  NotRecorded'
  BY <1>3, AddDocumentCases, Ids, ThreadsDiffer DEF NotRecorded, Stages
<1>4. ASSUME NEW th \in Threads, AddChunk(th)
      PROVE  NotRecorded'
  BY <1>4, AddChunkCases, Ids, ThreadsDiffer DEF NotRecorded, Stages, JobFits
<1>5. ASSUME NEW th \in Threads, ChunkWithoutDocument(th)
      PROVE  NotRecorded'
  BY <1>5, ChunkWithoutDocumentCases, Ids, ThreadsDiffer DEF NotRecorded, Stages
<1>6. ASSUME NEW th \in Threads, AddLocked(th)
      PROVE  NotRecorded'
  BY <1>6, AddLockedCases, Ids, ThreadsDiffer DEF NotRecorded, Stages, JobFits
<1>7. ASSUME NEW th \in Threads, Embed(th)
      PROVE  NotRecorded'
  BY <1>7, EmbedCases, Ids, ThreadsDiffer DEF NotRecorded, Stages, JobFits
<1>8. ASSUME NEW th \in Threads, SetMeta(th)
      PROVE  NotRecorded'
  BY <1>8, SetMetaCases, Ids, ThreadsDiffer DEF NotRecorded, Stages, JobFits
<1>9. ASSUME NEW th \in Threads, Undo(th)
      PROVE  NotRecorded'
  BY <1>9, UndoCases, Ids, ThreadsDiffer DEF NotRecorded, Stages, Deleted, JobFits
<1>10. ASSUME NEW th \in Threads, OtherCommit(th)
      PROVE  NotRecorded'
  BY <1>10 DEF OtherCommit, thread, NotRecorded, Stages
<1>11. ASSUME NEW c \in Contents, Upload(c)
      PROVE  NotRecorded'
  BY <1>11, UploadCases, Ids, ThreadsDiffer DEF NotRecorded, Stages
<1>12. CASE MoveFile
  BY <1>12, MoveFileCases, Ids, ThreadsDiffer DEF NotRecorded, Stages, JobFits
<1>13. CASE RecordFile
  BY <1>13, RecordFileCases, Ids, ThreadsDiffer DEF NotRecorded, Stages, JobFits
<1>14. ASSUME NEW w \in Workers, NEW id \in DocIds, UnlinkFile(w, id)
      PROVE  NotRecorded'
  BY <1>14, UnlinkFileCases, Ids, ThreadsDiffer DEF NotRecorded, Stages
<1>15. ASSUME NEW w \in Workers, RemoveVectors(w)
      PROVE  NotRecorded'
  BY <1>15, RemoveVectorsCases, Ids, ThreadsDiffer DEF NotRecorded, Stages, JobFits
<1>16. ASSUME NEW w \in Workers, DeleteRows(w)
      PROVE  NotRecorded'
  BY <1>16, DeleteRowsCases, Ids, ThreadsDiffer DEF NotRecorded, Stages, Deleted, JobFits
<1>17. ASSUME NEW w \in Workers, BeginRebuild(w)
      PROVE  NotRecorded'
  BY <1>17, BeginRebuildCases, Ids, ThreadsDiffer DEF NotRecorded, Stages
<1>18. ASSUME NEW w \in Workers, ResetIndex(w)
      PROVE  NotRecorded'
  BY <1>18, ResetIndexCases, Ids, ThreadsDiffer DEF NotRecorded, Stages
<1>19. ASSUME NEW w \in Workers, ClearAll(w)
      PROVE  NotRecorded'
  BY <1>19, ClearAllCases, Ids, ThreadsDiffer DEF NotRecorded, Stages
<1>20. ASSUME NEW w \in Workers, Reingest(w)
      PROVE  NotRecorded'
  BY <1>20, ReingestCases, Ids, ThreadsDiffer DEF NotRecorded, Stages
<1>21. ASSUME NEW w \in Workers, EndRebuild(w)
      PROVE  NotRecorded'
  BY <1>21, EndRebuildCases, Ids, ThreadsDiffer DEF NotRecorded, Stages
<1>22. ASSUME NEW w \in Workers, VectorSearch(w) \/ LexicalSearch(w) \/ Fetch(w)
      PROVE  NotRecorded'
  BY <1>22, SearchCases, Ids, ThreadsDiffer DEF NotRecorded, Stages
<1>23. CASE Restart
  BY <1>23, RestartCases, Ids, ThreadsDiffer DEF NotRecorded, Stages
<1>24. QED
  BY <1>1, <1>2, <1>3, <1>4, <1>5, <1>6, <1>7, <1>8, <1>9, <1>10, <1>11, <1>12,
     <1>13, <1>14, <1>15, <1>16, <1>17, <1>18, <1>19, <1>20, <1>21, <1>22, <1>23
     DEF Next, Request, UploadStep, WorkerStep, Ingest

LEMMA FiledStep == IInv /\ NotRecorded /\ Filed /\ [Next]_vars => Filed'
<1> SUFFICES ASSUME IInv, NotRecorded, Filed, [Next]_vars PROVE Filed'
  OBVIOUS
<1> USE DEF Goes, Leaves, Others, tables
<1>1. CASE UNCHANGED vars
  BY <1>1 DEF Filed, NotRecorded, Stages, vars, thread
<1>2. ASSUME NEW th \in Threads, CheckEmbeddingModel(th)
      PROVE  Filed'
  BY <1>2, CheckCases, Ids, ThreadsDiffer DEF Filed, NotRecorded, Stages
<1>3. ASSUME NEW th \in Threads, AddDocument(th)
      PROVE  Filed'
  BY <1>3, AddDocumentCases, Ids, ThreadsDiffer DEF Filed, NotRecorded, Stages
<1>4. ASSUME NEW th \in Threads, AddChunk(th)
      PROVE  Filed'
  BY <1>4, AddChunkCases, Ids, ThreadsDiffer DEF Filed, NotRecorded, Stages, JobFits
<1>5. ASSUME NEW th \in Threads, ChunkWithoutDocument(th)
      PROVE  Filed'
  BY <1>5, ChunkWithoutDocumentCases, Ids, ThreadsDiffer DEF Filed, NotRecorded, Stages
<1>6. ASSUME NEW th \in Threads, AddLocked(th)
      PROVE  Filed'
  BY <1>6, AddLockedCases, Ids, ThreadsDiffer DEF Filed, NotRecorded, Stages, JobFits
<1>7. ASSUME NEW th \in Threads, Embed(th)
      PROVE  Filed'
  BY <1>7, EmbedCases, Ids, ThreadsDiffer DEF Filed, NotRecorded, Stages, JobFits
<1>8. ASSUME NEW th \in Threads, SetMeta(th)
      PROVE  Filed'
  BY <1>8, SetMetaCases, Ids, ThreadsDiffer DEF Filed, NotRecorded, Stages, JobFits
<1>9. ASSUME NEW th \in Threads, Undo(th)
      PROVE  Filed'
  BY <1>9, UndoCases, Ids, ThreadsDiffer DEF Filed, NotRecorded, Stages, Deleted, JobFits
<1>10. ASSUME NEW th \in Threads, OtherCommit(th)
      PROVE  Filed'
  BY <1>10 DEF OtherCommit, thread, Filed, NotRecorded, Stages
<1>11. ASSUME NEW c \in Contents, Upload(c)
      PROVE  Filed'
  BY <1>11, UploadCases, Ids, ThreadsDiffer DEF Filed, NotRecorded, Stages
<1>12. CASE MoveFile
  BY <1>12, MoveFileCases, Ids, ThreadsDiffer DEF Filed, NotRecorded, Stages, JobFits
<1>13. CASE RecordFile
  BY <1>13, RecordFileCases, Ids, ThreadsDiffer DEF Filed, NotRecorded, Stages, JobFits
<1>14. ASSUME NEW w \in Workers, NEW id \in DocIds, UnlinkFile(w, id)
      PROVE  Filed'
  <2>1. /\ pc'[Loop] = pc[Loop] /\ job'[Loop] = job[Loop]
        /\ files' = IF \E d \in Row(id) : d.recorded THEN files \ {id} ELSE files
    BY <1>14, UnlinkFileCases, ThreadsDiffer
  <2>2. CASE pc[Loop] = "record"
    <3>1. \A d \in Row(job[Loop].id) : ~d.recorded
      BY <2>2 DEF NotRecorded, Row
    <3>2. QED
      BY <2>1, <2>2, <3>1 DEF Filed
  <2>3. QED
    BY <2>1, <2>2 DEF Filed
<1>15. ASSUME NEW w \in Workers, RemoveVectors(w)
      PROVE  Filed'
  BY <1>15, RemoveVectorsCases, Ids, ThreadsDiffer DEF Filed, NotRecorded, Stages, JobFits
<1>16. ASSUME NEW w \in Workers, DeleteRows(w)
      PROVE  Filed'
  BY <1>16, DeleteRowsCases, Ids, ThreadsDiffer
     DEF Filed, NotRecorded, Stages, Deleted, JobFits
<1>17. ASSUME NEW w \in Workers, BeginRebuild(w)
      PROVE  Filed'
  BY <1>17, BeginRebuildCases, Ids, ThreadsDiffer DEF Filed, NotRecorded, Stages
<1>18. ASSUME NEW w \in Workers, ResetIndex(w)
      PROVE  Filed'
  BY <1>18, ResetIndexCases, Ids, ThreadsDiffer DEF Filed, NotRecorded, Stages
<1>19. ASSUME NEW w \in Workers, ClearAll(w)
      PROVE  Filed'
  BY <1>19, ClearAllCases, Ids, ThreadsDiffer DEF Filed, NotRecorded, Stages
<1>20. ASSUME NEW w \in Workers, Reingest(w)
      PROVE  Filed'
  BY <1>20, ReingestCases, Ids, ThreadsDiffer DEF Filed, NotRecorded, Stages
<1>21. ASSUME NEW w \in Workers, EndRebuild(w)
      PROVE  Filed'
  BY <1>21, EndRebuildCases, Ids, ThreadsDiffer DEF Filed, NotRecorded, Stages
<1>22. ASSUME NEW w \in Workers, VectorSearch(w) \/ LexicalSearch(w) \/ Fetch(w)
      PROVE  Filed'
  BY <1>22, SearchCases, Ids, ThreadsDiffer DEF Filed, NotRecorded, Stages
<1>23. CASE Restart
  BY <1>23, RestartCases, Ids, ThreadsDiffer DEF Filed, NotRecorded, Stages
<1>24. QED
  BY <1>1, <1>2, <1>3, <1>4, <1>5, <1>6, <1>7, <1>8, <1>9, <1>10, <1>11, <1>12,
     <1>13, <1>14, <1>15, <1>16, <1>17, <1>18, <1>19, <1>20, <1>21, <1>22, <1>23
     DEF Next, Request, UploadStep, WorkerStep, Ingest

LEMMA RecordsKeptStep == IInv /\ Filed /\ RecordsKept /\ [Next]_vars => RecordsKept'
<1> SUFFICES ASSUME IInv, Filed, RecordsKept, [Next]_vars PROVE RecordsKept'
  OBVIOUS
<1> USE DEF Goes, Leaves, Others, tables
<1>1. CASE UNCHANGED vars
  BY <1>1 DEF RecordsKept, Filed, vars, thread
<1>2. ASSUME NEW th \in Threads, CheckEmbeddingModel(th)
      PROVE  RecordsKept'
  BY <1>2, CheckCases, Ids, ThreadsDiffer DEF RecordsKept, Filed
<1>3. ASSUME NEW th \in Threads, AddDocument(th)
      PROVE  RecordsKept'
  BY <1>3, AddDocumentCases, Ids, ThreadsDiffer DEF RecordsKept, Filed
<1>4. ASSUME NEW th \in Threads, AddChunk(th)
      PROVE  RecordsKept'
  BY <1>4, AddChunkCases, Ids, ThreadsDiffer DEF RecordsKept, Filed, JobFits
<1>5. ASSUME NEW th \in Threads, ChunkWithoutDocument(th)
      PROVE  RecordsKept'
  BY <1>5, ChunkWithoutDocumentCases, Ids, ThreadsDiffer DEF RecordsKept, Filed
<1>6. ASSUME NEW th \in Threads, AddLocked(th)
      PROVE  RecordsKept'
  BY <1>6, AddLockedCases, Ids, ThreadsDiffer DEF RecordsKept, Filed, JobFits
<1>7. ASSUME NEW th \in Threads, Embed(th)
      PROVE  RecordsKept'
  BY <1>7, EmbedCases, Ids, ThreadsDiffer DEF RecordsKept, Filed, JobFits
<1>8. ASSUME NEW th \in Threads, SetMeta(th)
      PROVE  RecordsKept'
  BY <1>8, SetMetaCases, Ids, ThreadsDiffer DEF RecordsKept, Filed, JobFits
<1>9. ASSUME NEW th \in Threads, Undo(th)
      PROVE  RecordsKept'
  BY <1>9, UndoCases, Ids, ThreadsDiffer DEF RecordsKept, Filed, Deleted, JobFits
<1>10. ASSUME NEW th \in Threads, OtherCommit(th)
      PROVE  RecordsKept'
  BY <1>10 DEF OtherCommit, thread, RecordsKept, Filed
<1>11. ASSUME NEW c \in Contents, Upload(c)
      PROVE  RecordsKept'
  BY <1>11, UploadCases, Ids, ThreadsDiffer DEF RecordsKept, Filed
<1>12. CASE MoveFile
  BY <1>12, MoveFileCases, Ids, ThreadsDiffer DEF RecordsKept, Filed, JobFits
<1>13. CASE RecordFile
  BY <1>13, RecordFileCases, Ids, ThreadsDiffer DEF RecordsKept, Filed, JobFits
<1>14. ASSUME NEW w \in Workers, NEW id \in DocIds, UnlinkFile(w, id)
      PROVE  RecordsKept'
  BY <1>14, UnlinkFileCases, Ids, ThreadsDiffer DEF RecordsKept, Filed
<1>15. ASSUME NEW w \in Workers, RemoveVectors(w)
      PROVE  RecordsKept'
  BY <1>15, RemoveVectorsCases, Ids, ThreadsDiffer DEF RecordsKept, Filed, JobFits
<1>16. ASSUME NEW w \in Workers, DeleteRows(w)
      PROVE  RecordsKept'
  BY <1>16, DeleteRowsCases, Ids, ThreadsDiffer DEF RecordsKept, Filed, Deleted, JobFits
<1>17. ASSUME NEW w \in Workers, BeginRebuild(w)
      PROVE  RecordsKept'
  BY <1>17, BeginRebuildCases, Ids, ThreadsDiffer DEF RecordsKept, Filed
<1>18. ASSUME NEW w \in Workers, ResetIndex(w)
      PROVE  RecordsKept'
  BY <1>18, ResetIndexCases, Ids, ThreadsDiffer DEF RecordsKept, Filed
<1>19. ASSUME NEW w \in Workers, ClearAll(w)
      PROVE  RecordsKept'
  BY <1>19, ClearAllCases, Ids, ThreadsDiffer DEF RecordsKept, Filed
<1>20. ASSUME NEW w \in Workers, Reingest(w)
      PROVE  RecordsKept'
  BY <1>20, ReingestCases, Ids, ThreadsDiffer DEF RecordsKept, Filed
<1>21. ASSUME NEW w \in Workers, EndRebuild(w)
      PROVE  RecordsKept'
  BY <1>21, EndRebuildCases, Ids, ThreadsDiffer DEF RecordsKept, Filed
<1>22. ASSUME NEW w \in Workers, VectorSearch(w) \/ LexicalSearch(w) \/ Fetch(w)
      PROVE  RecordsKept'
  BY <1>22, SearchCases, Ids, ThreadsDiffer DEF RecordsKept, Filed
<1>23. CASE Restart
  BY <1>23, RestartCases, Ids, ThreadsDiffer DEF RecordsKept, Filed
<1>24. QED
  BY <1>1, <1>2, <1>3, <1>4, <1>5, <1>6, <1>7, <1>8, <1>9, <1>10, <1>11, <1>12,
     <1>13, <1>14, <1>15, <1>16, <1>17, <1>18, <1>19, <1>20, <1>21, <1>22, <1>23
     DEF Next, Request, UploadStep, WorkerStep, Ingest

-----------------------------------------------------------------------------
(* The theorems.                                                            *)

LEMMA InitHolds ==
    Init => /\ ModelHeld /\ OwnModel /\ OneModel /\ VectorsKept /\ RowsKept
            /\ Sources /\ NotUploaded /\ DuplicatesOnlyByRebuild
            /\ NotRecorded /\ Filed /\ RecordsKept
BY ThreadsDiffer
   DEF Init, ModelHeld, OwnModel, OneModel, VectorsKept, RowsKept, Sources, NotUploaded,
       DuplicatesOnlyByRebuild, NotRecorded, Filed, RecordsKept, Stages

(* The vectors of whole documents come from the model knowledge_meta names. *)
THEOREM VectorsOfOneModel == Spec => []OneModel
<1>1. IInv /\ ModelHeld /\ OwnModel /\ OneModel /\ [Next]_vars
        => (IInv /\ ModelHeld /\ OwnModel /\ OneModel)'
  BY TypeStep, ModelHeldStep, OwnModelStep, OneModelStep
<1>2. QED
  BY <1>1, InitType, InitHolds, PTL DEF Spec

(* A search compares its query with vectors of the model that embeds it.    *)
THEOREM SearchesCompareLikeWithLike == Spec => []SearchComparesLikeWithLike
<1>1. IInv /\ ModelHeld /\ OneModel => SearchComparesLikeWithLike
  <2> SUFFICES ASSUME IInv, ModelHeld, OneModel, NEW w \in Workers, pc[w] = "lexical",
                      NEW v \in vectors, v.row \in chunks
               PROVE  v.model = model \/ InProgress(v.row.doc) \/ v.row.doc \in cut
    BY DEF SearchComparesLikeWithLike
  <2>1. meta \in {NoModel, model}
    BY ThreadsDiffer DEF ModelHeld
  <2>2. v.model # NoModel
    BY Ids
  <2>3. QED
    BY <2>1, <2>2 DEF OneModel
<1>2. IInv /\ ModelHeld /\ OwnModel /\ OneModel /\ [Next]_vars
        => (IInv /\ ModelHeld /\ OwnModel /\ OneModel)'
  BY TypeStep, ModelHeldStep, OwnModelStep, OneModelStep
<1>3. QED
  BY <1>1, <1>2, InitType, InitHolds, PTL DEF Spec

(* Every document nobody is working on has a vector for each of its chunks, *)
(* unless an operation on it was cut short.                                 *)
THEOREM DocumentsHaveTheirVectors == Spec => []VectorsComplete
<1>1. VectorsKept => VectorsComplete
  BY DEF VectorsKept, VectorsWhole, VectorsComplete, InProgress, Ingesting
<1>2. QED
  BY <1>1, InitType, InitHolds, TypeStep, VectorsKeptStep, PTL DEF Spec

(* Every line of text of such a document lies in a chunk that is stored.    *)
THEOREM TextStaysIndexed == Spec => []TextIsIndexed
<1>1. IInv /\ RowsKept => TextIsIndexed
  <2> SUFFICES ASSUME IInv, RowsKept, NEW d \in docs, ~InProgress(d.id), d.id \notin cut,
                      NEW i \in 1 .. Len(Text(d.content)), Text(d.content)[i] = "text"
               PROVE  \E c \in chunks : c.doc = d.id /\ i \in c.chunk.from .. c.chunk.to
    BY DEF TextIsIndexed
  <2>1. ChunksWhole(d)
    BY DEF RowsKept, InProgress, Ingesting
  <2>2. d.content \in Contents
    BY DEF IInv, TypeOK, Document
  <2>3. PICK c \in ChunksOf(d.content) : i \in c.from .. c.to
    BY <2>2, EveryLineIsInAChunk, KnowledgeAssumption DEF ChunksOf
  <2>4. Stored(d.id, c) \in chunks
    BY <2>1 DEF ChunksWhole
  <2>5. QED
    BY <2>3, <2>4 DEF Stored
<1>2. QED
  BY <1>1, InitType, InitHolds, TypeStep, RowsKeptStep, PTL DEF Spec

(* Two documents of one content: one of them was ingested by a rebuild.     *)
THEOREM DuplicatesComeFromRebuilds == Spec => []DuplicatesOnlyByRebuild
BY InitType, InitHolds, TypeStep, UploadedOnceStep, PTL DEF Spec

(* A document that records its permanent file has it, until a deletion of   *)
(* the document takes it away or is cut short.                              *)
THEOREM RecordedFilesStay == Spec => []RecordedFilesExist
<1>1. RecordsKept => RecordedFilesExist
  BY DEF RecordsKept, RecordedFilesExist, InProgress
<1>2. QED
  BY <1>1, InitType, InitHolds, TypeStep, NotRecordedStep, FiledStep, RecordsKeptStep, PTL
     DEF Spec
=============================================================================
