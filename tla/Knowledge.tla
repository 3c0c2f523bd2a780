------------------------------ MODULE Knowledge -----------------------------
(***************************************************************************)
(* The knowledge base: agentflow/knowledge/store.py over the vector index  *)
(* (index.py), the documents and chunks of agentflow/database/sqlite.py    *)
(* and the files of agentflow/api/knowledge.py.                            *)
(*                                                                         *)
(* An upload runs on the event-loop thread from its first write to its     *)
(* last, so uploads follow one another; deletions, rebuilds and searches   *)
(* run in worker threads and come between any two of its steps.  Nothing   *)
(* spans the three stores: every step is one transaction, one call of the  *)
(* index or one file operation.                                            *)
(***************************************************************************)
EXTENDS Chunking, FiniteSets

CONSTANTS
    Contents,       \* contents of files; the hash of a file stands for it
    Text(_),        \* a content as a sequence of lines
    FileType(_),    \* and its type
    Models,         \* embedding models
    NoModel,
    Loop,           \* the event-loop thread
    Workers,        \* worker threads
    NoThread,
    MaxDocs,        \* bound: document ids given out
    Crashes         \* bound: stops of the process

Threads == {Loop} \union Workers

ASSUME KnowledgeAssumption ==
    /\ \A c \in Contents : Text(c) \in Seq(Lines) /\ FileType(c) \in FileTypes
    /\ NoModel \notin Models /\ Models # {}
    /\ Loop \notin Workers /\ NoThread \notin Threads
    /\ Contents # {}
    /\ MaxDocs \in Nat /\ Crashes \in Nat

VARIABLES
    docs,           \* rows of documents
    nextDoc,        \* the next document id (AUTOINCREMENT)
    chunks,         \* rows of chunks
    vectors,        \* points of the index: a chunk and the model that embedded it
    meta,           \* knowledge_meta["embedding_model"]
    files,          \* ids that have a file in KNOWLEDGE_FILES_DIR
    lock,           \* the thread whose connection holds the write lock
    model,          \* the model of this process's embedder
    pc,             \* where each thread is
    job,            \* the document it ingests or deletes
    todo,           \* documents a rebuild still has to ingest
    hits,           \* what a search has found: any one of its hits
    cut,            \* auxiliary: ids an interrupted operation left as they were
    crashes

tables == <<docs, nextDoc, chunks, meta>>
thread == <<pc, job, todo, hits>>
vars == <<tables, vectors, files, lock, model, thread, cut, crashes>>

DocIds == 1..MaxDocs

(* doc_metadata names the file a document was read from (original_path):    *)
(* the upload directory, or the permanent file of a rebuild; recorded:      *)
(* it has a permanent_path.                                                 *)
Document == [id: DocIds, content: Contents, source: {"upload", "file"}, recorded: BOOLEAN]
Job == [id: 0..MaxDocs, content: Contents, source: {"upload", "file"}]

Ingesting == {"check", "add", "chunk", "embed", "meta", "undo"}
Steps == {"idle", "move", "record", "remove", "cascade", "reset", "clear", "next",
          "lexical", "fetch"} \union Ingesting

Row(id) == {d \in docs : d.id = id}
ChunksOf(content) == ChunkDocument(Text(content), FileType(content))
Stored(id, chunk) == [doc |-> id, chunk |-> chunk]
Point(row, m) == [row |-> row, model |-> m]
NoJob == [id |-> 0, content |-> CHOOSE c \in Contents : TRUE, source |-> "upload"]

Goto(th, step) == pc' = [pc EXCEPT ![th] = step]

(* A write waits, and after five seconds fails, while another connection    *)
(* holds the write lock; its commit gives back a lock of its own.           *)
Locked(th) == lock \notin {th, NoThread}
Commit(th) == ~Locked(th) /\ lock' = NoThread

Init ==
    /\ docs = {} /\ nextDoc = 1 /\ chunks = {} /\ vectors = {} /\ meta = NoModel
    /\ files = {} /\ lock = NoThread
    /\ model \in Models
    /\ pc = [th \in Threads |-> "idle"]
    /\ job = [th \in Threads |-> NoJob]
    /\ todo = [th \in Threads |-> {}]
    /\ hits = [th \in Threads |-> {}]
    /\ cut = {} /\ crashes = 0

-----------------------------------------------------------------------------
(* add_document, in steps.  What comes after it is the upload's or the      *)
(* rebuild's, which swallows the exceptions of a document.                  *)

Return(th, step) ==
    /\ Goto(th, step)
    /\ job' = [job EXCEPT ![th] = NoJob]
    /\ UNCHANGED <<todo, hits>>

Ingested(th) ==
    IF th = Loop THEN Goto(th, "move") /\ UNCHANGED <<job, todo, hits>>
    ELSE Return(th, "next")
Raised(th) == Return(th, IF th = Loop THEN "idle" ELSE "next")

Proceed(th, step) == Goto(th, step) /\ UNCHANGED <<job, todo, hits>>

Refused == meta \notin {NoModel, model}

(* Mutant: an index of another model is not noticed.                        *)
CheckNothing(th) ==
    /\ pc[th] = "check"
    /\ Proceed(th, "add")
    /\ UNCHANGED <<tables, vectors, files, lock, model, cut, crashes>>
(* _check_embedding_model, then the file is read and parsed.                *)
CheckEmbeddingModel(th) ==
    /\ pc[th] = "check"
    /\ IF Refused THEN Raised(th) ELSE Proceed(th, "add")
    /\ UNCHANGED <<tables, vectors, files, lock, model, cut, crashes>>

(* The row of the document, with the hash that find_duplicate goes by.      *)
AddDocument(th) ==
    /\ pc[th] = "add" /\ nextDoc <= MaxDocs
    /\ Commit(th)
    /\ docs' = docs \union {[id |-> nextDoc, content |-> job[th].content,
                             source |-> job[th].source, recorded |-> FALSE]}
    /\ nextDoc' = nextDoc + 1
    /\ job' = [job EXCEPT ![th].id = nextDoc]
    /\ Goto(th, IF ChunksOf(job[th].content) # {} THEN "chunk"
                ELSE IF th = Loop THEN "move" ELSE "next")
    /\ UNCHANGED <<chunks, meta, vectors, files, model, todo, hits, cut, crashes>>

(* The chunk rows, one transaction each, in the order of the text.          *)
AddChunk(th) ==
    /\ pc[th] = "chunk" /\ Row(job[th].id) # {}
    /\ Commit(th)
    /\ LET missing == {c \in ChunksOf(job[th].content) : Stored(job[th].id, c) \notin chunks}
           next == CHOOSE c \in missing : \A d \in missing : c.from <= d.from
       IN  /\ chunks' = chunks \union {Stored(job[th].id, next)}
           /\ Proceed(th, IF missing = {next} THEN "embed" ELSE "chunk")
    /\ UNCHANGED <<docs, nextDoc, meta, vectors, files, model, cut, crashes>>

(* The document was deleted meanwhile: the INSERT fails, outside the try,   *)
(* and its transaction stays open.                                          *)
ChunkWithoutDocument(th) ==
    /\ pc[th] = "chunk" /\ Row(job[th].id) = {} /\ ~Locked(th)
    /\ lock' = th
    /\ Raised(th)
    /\ UNCHANGED <<tables, vectors, files, model, cut, crashes>>

(* A failure of the row or of a chunk row is outside the try: what has been *)
(* written stays.                                                           *)
AddLocked(th) ==
    /\ pc[th] \in {"add", "chunk"} /\ Locked(th)
    /\ cut' = cut \union ({job[th].id} \ {0})
    /\ Raised(th)
    /\ UNCHANGED <<tables, vectors, files, lock, model, crashes>>

(* Embedding and QdrantIndex.add; either may fail, an upsert that timed out *)
(* may have been applied.                                                   *)
Embed(th) ==
    /\ pc[th] = "embed"
    /\ LET points == {Point(Stored(job[th].id, c), model) : c \in ChunksOf(job[th].content)}
       IN  \/ vectors' = vectors \union points /\ Proceed(th, "meta")
           \/ vectors' \in {vectors, vectors \union points} /\ Proceed(th, "undo")
    /\ UNCHANGED <<tables, files, lock, model, cut, crashes>>

(* set_knowledge_meta (the dimension is written after it and read by        *)
(* nothing).                                                                *)
SetMeta(th) ==
    /\ pc[th] = "meta"
    /\ \/ Commit(th) /\ meta' = model /\ Ingested(th)
       \/ Locked(th) /\ Proceed(th, "undo") /\ UNCHANGED <<meta, lock>>
    /\ UNCHANGED <<docs, nextDoc, chunks, vectors, files, model, cut, crashes>>

(* Mutant: the chunks of a document do not go with it.                      *)
DeleteKeepingChunks(id) ==
    /\ docs' = docs \ Row(id)
    /\ UNCHANGED chunks
(* The foreign key takes the chunks along.                                  *)
DeleteCascade(id) ==
    /\ docs' = docs \ Row(id)
    /\ chunks' = {c \in chunks : c.doc # id}

(* Mutant: a document that could not be indexed stays.                      *)
UndoNothing(th) ==
    /\ pc[th] = "undo"
    /\ Raised(th)
    /\ UNCHANGED <<tables, vectors, files, lock, model, cut, crashes>>
(* The except branch: the rows go, vectors stay.                            *)
Undo(th) ==
    /\ pc[th] = "undo"
    /\ \/ Commit(th) /\ DeleteCascade(job[th].id) /\ UNCHANGED cut
       \/ Locked(th) /\ cut' = cut \union {job[th].id} /\ UNCHANGED <<docs, chunks, lock>>
    /\ Raised(th)
    /\ UNCHANGED <<nextDoc, meta, vectors, files, model, crashes>>

Ingest(th) ==
    \/ CheckEmbeddingModel(th) \/ AddDocument(th) \/ AddChunk(th)
    \/ ChunkWithoutDocument(th) \/ AddLocked(th) \/ Embed(th) \/ SetMeta(th) \/ Undo(th)

-----------------------------------------------------------------------------
(* upload_file, and every entry of _handle_zip_upload.                      *)

(* Mutant: the content of a file is not looked up.                          *)
UploadAnyway(content) ==
    /\ pc[Loop] = "idle"
    /\ job' = [job EXCEPT ![Loop] = [id |-> 0, content |-> content, source |-> "upload"]]
    /\ Goto(Loop, "check")
    /\ UNCHANGED <<tables, vectors, files, lock, model, todo, hits, cut, crashes>>
(* find_duplicate: a content that has a row, whole or not, is not read.     *)
Upload(content) ==
    /\ pc[Loop] = "idle"
    /\ \A d \in docs : d.content # content
    /\ job' = [job EXCEPT ![Loop] = [id |-> 0, content |-> content, source |-> "upload"]]
    /\ Goto(Loop, "check")
    /\ UNCHANGED <<tables, vectors, files, lock, model, todo, hits, cut, crashes>>

(* Mutant: the path is recorded before the file is there.                   *)
MoveFileLater ==
    /\ pc[Loop] = "move"
    /\ Proceed(Loop, "record")
    /\ UNCHANGED <<tables, vectors, files, lock, model, cut, crashes>>
(* From the upload directory to the permanent one.                          *)
MoveFile ==
    /\ pc[Loop] = "move"
    /\ files' = files \union {job[Loop].id}
    /\ Proceed(Loop, "record")
    /\ UNCHANGED <<tables, vectors, lock, model, cut, crashes>>

(* update_document_metadata says nothing when the row is gone.              *)
RecordFile ==
    /\ pc[Loop] = "record"
    /\ \/ Commit(Loop) /\ docs' = {[d EXCEPT !.recorded = @ \/ d.id = job[Loop].id] : d \in docs}
       \/ Row(job[Loop].id) = {} /\ UNCHANGED <<docs, lock>>
       \/ Locked(Loop) /\ UNCHANGED <<docs, lock>>
    /\ Return(Loop, "idle")
    /\ UNCHANGED <<nextDoc, chunks, meta, vectors, files, model, cut, crashes>>

-----------------------------------------------------------------------------
(* DELETE /knowledge/documents: the file, then the vectors, then the rows.  *)

UnlinkFile(w, id) ==
    /\ pc[w] = "idle" /\ Row(id) # {}
    /\ files' = IF \E d \in Row(id) : d.recorded THEN files \ {id} ELSE files
    /\ job' = [job EXCEPT ![w] = [NoJob EXCEPT !.id = id]]
    /\ Goto(w, "remove")
    /\ UNCHANGED <<tables, vectors, lock, model, todo, hits, cut, crashes>>

(* QdrantIndex.remove of the chunks there are now.                          *)
RemoveVectors(w) ==
    /\ pc[w] = "remove"
    /\ \/ /\ vectors' = {v \in vectors : v.row \notin {c \in chunks : c.doc = job[w].id}}
          /\ Proceed(w, "cascade")
          /\ UNCHANGED cut
       \/ /\ \E c \in chunks : c.doc = job[w].id
          /\ cut' = cut \union {job[w].id}
          /\ Return(w, "idle")
          /\ UNCHANGED vectors
    /\ UNCHANGED <<tables, files, lock, model, crashes>>

DeleteRows(w) ==
    /\ pc[w] = "cascade"
    /\ \/ Commit(w) /\ DeleteCascade(job[w].id) /\ UNCHANGED cut
       \/ Locked(w) /\ cut' = cut \union {job[w].id} /\ UNCHANGED <<docs, chunks, lock>>
    /\ Return(w, "idle")
    /\ UNCHANGED <<nextDoc, meta, vectors, files, model, crashes>>

-----------------------------------------------------------------------------
(* POST /knowledge/rebuild.                                                 *)

BeginRebuild(w) ==
    /\ pc[w] = "idle"
    /\ todo' = [todo EXCEPT ![w] = docs]
    /\ Goto(w, "reset")
    /\ UNCHANGED <<tables, vectors, files, lock, model, job, hits, cut, crashes>>

ResetIndex(w) ==
    /\ pc[w] = "reset"
    /\ vectors' = {}
    /\ Proceed(w, "clear")
    /\ UNCHANGED <<tables, files, lock, model, cut, crashes>>

(* clear_all_knowledge; if it fails the index is empty and the rows are not. *)
ClearAll(w) ==
    /\ pc[w] = "clear"
    /\ \/ /\ Commit(w) /\ docs' = {} /\ chunks' = {} /\ meta' = NoModel
          /\ Proceed(w, "next")
          /\ UNCHANGED cut
       \/ /\ Locked(w) /\ cut' = cut \union {d.id : d \in docs}
          /\ Goto(w, "idle") /\ todo' = [todo EXCEPT ![w] = {}]
          /\ UNCHANGED <<docs, chunks, meta, lock, job, hits>>
    /\ UNCHANGED <<nextDoc, vectors, files, model, crashes>>

(* The next document: ingested again from its recorded file, if that is     *)
(* there; the new row does not record it.                                   *)
Reingest(w) ==
    /\ pc[w] = "next"
    /\ \E d \in todo[w] :
          /\ todo' = [todo EXCEPT ![w] = @ \ {d}]
          /\ IF d.recorded /\ d.id \in files
             THEN /\ job' = [job EXCEPT ![w] = [id |-> 0, content |-> d.content, source |-> "file"]]
                  /\ Goto(w, "check")
             ELSE UNCHANGED <<pc, job>>
    /\ UNCHANGED <<tables, vectors, files, lock, model, hits, cut, crashes>>

EndRebuild(w) ==
    /\ pc[w] = "next" /\ todo[w] = {}
    /\ Return(w, "idle")
    /\ UNCHANGED <<tables, vectors, files, lock, model, cut, crashes>>

-----------------------------------------------------------------------------
(* KnowledgeStore.search, from a worker: the endpoint or the knowledge node. *)

AtMostOne(S) == {{}} \union {{x} : x \in S}

(* Mutant: the model of the index is not checked.                           *)
VectorSearchUnchecked(w) ==
    /\ pc[w] = "idle" /\ docs # {}
    /\ hits' \in {[hits EXCEPT ![w] = found] : found \in AtMostOne({v.row : v \in vectors})}
    /\ Goto(w, "lexical")
    /\ UNCHANGED <<tables, vectors, files, lock, model, job, todo, cut, crashes>>
(* The vector side; nothing when the embedder or the index is not           *)
(* available.                                                               *)
VectorSearch(w) ==
    /\ pc[w] = "idle" /\ docs # {} /\ ~Refused
    /\ hits' \in {[hits EXCEPT ![w] = found] : found \in AtMostOne({v.row : v \in vectors})}
    /\ Goto(w, "lexical")
    /\ UNCHANGED <<tables, vectors, files, lock, model, job, todo, cut, crashes>>

(* The lexical side, the fusion of both and the cut at top_k.               *)
LexicalSearch(w) ==
    /\ pc[w] = "lexical"
    /\ hits' \in {[hits EXCEPT ![w] = found] : found \in AtMostOne(hits[w] \union chunks)}
    /\ Goto(w, "fetch")
    /\ UNCHANGED <<tables, vectors, files, lock, model, job, todo, cut, crashes>>

(* get_chunks_with_documents_batch drops what has no row any more.          *)
Fetch(w) ==
    /\ pc[w] = "fetch"
    /\ hits' = [hits EXCEPT ![w] = {}]
    /\ Goto(w, "idle")
    /\ UNCHANGED <<tables, vectors, files, lock, model, job, todo, cut, crashes>>

-----------------------------------------------------------------------------
(* Another commit of the thread's connection (a chat, the cleanup task), or *)
(* the end of an idle worker.                                               *)
OtherCommit(th) ==
    /\ lock = th /\ pc[th] = "idle"
    /\ lock' = NoThread
    /\ UNCHANGED <<tables, vectors, files, model, thread, cut, crashes>>

Involved(th) ==
    IF pc[th] = "clear" THEN {d.id : d \in docs}
    ELSE {job[th].id} \ {0}

(* The process stops and starts again, perhaps with another model.          *)
Restart ==
    /\ crashes < Crashes
    /\ crashes' = crashes + 1
    /\ model' \in Models
    /\ cut' = cut \union UNION {Involved(th) : th \in Threads}
    /\ lock' = NoThread
    /\ pc' = [th \in Threads |-> "idle"]
    /\ job' = [th \in Threads |-> NoJob]
    /\ todo' = [th \in Threads |-> {}]
    /\ hits' = [th \in Threads |-> {}]
    /\ UNCHANGED <<tables, vectors, files>>

-----------------------------------------------------------------------------
UploadStep == MoveFile \/ RecordFile
WorkerStep(w) ==
    \/ RemoveVectors(w) \/ DeleteRows(w)
    \/ ResetIndex(w) \/ ClearAll(w) \/ Reingest(w) \/ EndRebuild(w)
    \/ LexicalSearch(w) \/ Fetch(w)

Request ==
    \/ \E c \in Contents : Upload(c)
    \/ \E w \in Workers :
          \/ \E id \in DocIds : UnlinkFile(w, id)
          \/ BeginRebuild(w) \/ VectorSearch(w)

Next ==
    \/ Request \/ UploadStep
    \/ \E th \in Threads : Ingest(th) \/ OtherCommit(th)
    \/ \E w \in Workers : WorkerStep(w)
    \/ Restart

Spec == Init /\ [][Next]_vars

-----------------------------------------------------------------------------
TypeOK ==
    /\ docs \subseteq Document /\ nextDoc \in 1..(MaxDocs + 1)
    /\ \A d \in docs : d.id < nextDoc
    /\ \A c \in chunks : \E d \in docs : c.doc = d.id /\ c.chunk \in ChunksOf(d.content)
    /\ \A v \in vectors : v.row.doc \in 1..(nextDoc - 1) /\ v.model \in Models
    /\ meta \in Models \union {NoModel} /\ model \in Models
    /\ files \subseteq 1..(nextDoc - 1) /\ cut \subseteq 1..(nextDoc - 1)
    /\ lock \in Threads \union {NoThread}
    /\ pc \in [Threads -> Steps] /\ job \in [Threads -> Job]
    /\ \A th \in Threads : todo[th] \subseteq Document /\ job[th].id < nextDoc
    /\ crashes \in 0..Crashes

(* A thread is in the middle of ingesting, deleting or clearing it.         *)
InProgress(id) ==
    \E th \in Threads :
        \/ pc[th] = "clear"
        \/ job[th].id = id /\ pc[th] \in Ingesting \union {"remove", "cascade"}

(* Every document that nobody is working on can be found by its meaning:    *)
(* all its chunks have vectors, unless an operation on it was cut short     *)
(* (store.py 107-139: rows first, vectors next, nothing spans both).        *)
VectorsComplete ==
    \A d \in docs : InProgress(d.id) \/ d.id \in cut \/
        \A c \in ChunksOf(d.content) : \E m \in Models : Point(Stored(d.id, c), m) \in vectors

(* No text is lost on the way into the index: every line of text lies in a  *)
(* chunk of its document (chunking.py, parser.py).                          *)
TextIsIndexed ==
    \A d \in docs : InProgress(d.id) \/ d.id \in cut \/
        \A i \in 1..Len(Text(d.content)) : Text(d.content)[i] = "text" =>
            \E c \in chunks : c.doc = d.id /\ i \in c.chunk.from..c.chunk.to

(* The vectors of whole documents come from the model knowledge_meta names, *)
(* whatever model the process was restarted with (store.py 227-236).        *)
OneModel ==
    \A v \in vectors : v.row \in chunks =>
        v.model = meta \/ InProgress(v.row.doc) \/ v.row.doc \in cut

(* A search compares its query with vectors of the model that embeds it: of *)
(* what it finds and can show, only an interrupted document is an exception. *)
SearchComparesLikeWithLike ==
    \A w \in Workers : pc[w] = "lexical" =>
        \A v \in vectors : v.row \in hits[w] \intersect chunks =>
            v.model = model \/ InProgress(v.row.doc) \/ v.row.doc \in cut

(* A content is indexed twice only when a rebuild brought it back while it  *)
(* was being uploaded: find_duplicate and add_document are apart            *)
(* (knowledge.py 62-80).                                                    *)
DuplicatesOnlyByRebuild ==
    \A d, e \in docs : d.id # e.id /\ d.content = e.content => "file" \in {d.source, e.source}

(* A document that names its permanent file can be read and rebuilt from    *)
(* it, unless its deletion was cut short (knowledge.py 75-80, 190-203).     *)
RecordedFilesExist ==
    \A d \in docs : d.recorded => d.id \in files \/ InProgress(d.id) \/ d.id \in cut
=============================================================================
