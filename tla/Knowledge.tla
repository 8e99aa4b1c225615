------------------------------ MODULE Knowledge ------------------------------
(***************************************************************************)
(* The knowledge base of an organization: its documents, the chunks they   *)
(* are searched by, and the files they were uploaded as                    *)
(* (knowledge/service.py, knowledge/parsing.py).                           *)
(*                                                                         *)
(* A request loads a document with its chunks and commits afterwards; the  *)
(* new chunks replace those it has loaded, and the place of a chunk in its *)
(* document is unique.  The file is not part of the transaction.  A text   *)
(* is its paragraphs, each the lengths of its sentences; titles and tags   *)
(* are left out, and of the search that its hits are chunks.               *)
(***************************************************************************)
EXTENDS Integers, Sequences, FiniteSets, SequencesExt, FiniteSetsExt

CONSTANTS Documents,      \* the documents there may ever be
          Requests,       \* the requests that may be under way at once
          Samples,        \* the texts of the first document
          Texts,          \* the texts it may be given later, and those of other documents
          CHUNK_CHARS,
          CONTEXT_CHARS,
          TitleChars,     \* what the title adds to a hit
          MaxHits,        \* bound on the hits of a search
          MaxChanges,     \* bound on the texts written
          MaxTroubles,    \* bound on processes that die
          null

VARIABLES documents, \* documents[d]: the row, null if there is none
          chunks,    \* chunks[d]: the rows of its chunks
          files,     \* the documents that have a file in the storage
          request,   \* request[p]: the request p between two of its steps
          past       \* history and budgets

vars == <<documents, chunks, files, request, past>>

\* What the values of the constants have to satisfy.
ParametersOK ==
    /\ {CHUNK_CHARS, CONTEXT_CHARS} \subseteq Nat \ {0} /\ {TitleChars, MaxHits, MaxChanges, MaxTroubles} \subseteq Nat
    /\ Texts \subseteq Samples /\ \A t \in Samples : \A k \in DOMAIN t : t[k] \in Seq(Nat \ {0}) /\ t[k] # <<>>

KnowledgeDocument == [text: Samples, chunk_count: Nat, stored: BOOLEAN]
\* version: the change that has written it; text: what it is a part of.
KnowledgeChunk == [version: 1..MaxChanges, position: Nat, text: Samples, piece: [len: Nat, of: Nat]]
Request == [op: {"none", "upload", "update", "delete", "remove_file"}, document: Documents \cup {null},
            read: KnowledgeDocument \cup {null}, chunks: SUBSET Nat, text: Samples \cup {null}]
\* changes: the texts written; blank: a text without a word met another change of its document.
Past == [changes: 0..MaxChanges, used: SUBSET Documents, blank: BOOLEAN, troubles: 0..MaxTroubles]

Idle == [op |-> "none", document |-> null, read |-> null, chunks |-> {}, text |-> null]
Blank == <<>>
-----------------------------------------------------------------------------
(* chunk_text: a paragraph that is too long is cut between sentences, a sentence that is too long      *)
(* anywhere; neighbouring short pieces are joined.  A piece: its length, and the characters of the text *)
(* in it.                                                                                              *)

Total(numbers) == FoldSeq(LAMBDA a, b : a + b, 0, numbers)
Piece(len, of) == [len |-> len, of |-> of]
Length(paragraph) == Total(paragraph) + Len(paragraph) - 1
SumOf(pieces) == Total([k \in DOMAIN pieces |-> pieces[k].of])

\* A sentence joins the piece before it, or begins one, which is cut as long as it is too long.
AddSentence(cut, sentence) ==
    LET fits == cut.current.len > 0 /\ cut.current.len + 1 + sentence <= CHUNK_CHARS
        begun == IF fits THEN Piece(cut.current.len + 1 + sentence, cut.current.of + sentence) ELSE Piece(sentence, sentence)
        cuts == (begun.len - 1) \div CHUNK_CHARS
        before == IF fits \/ cut.current.len = 0 THEN cut.done ELSE Append(cut.done, cut.current)
    IN  [done |-> before \o [k \in 1..cuts |-> Piece(CHUNK_CHARS, CHUNK_CHARS)],
         current |-> Piece(begun.len - cuts * CHUNK_CHARS, begun.of - cuts * CHUNK_CHARS)]

Pieces(paragraph) ==
    IF Length(paragraph) <= CHUNK_CHARS THEN <<Piece(Length(paragraph), Total(paragraph))>>
    ELSE LET cut == FoldLeft(AddSentence, [done |-> <<>>, current |-> Piece(0, 0)], paragraph)
         IN  Append(cut.done, cut.current)

\* Variant: pieces are joined without counting what separates them.
JoinsTight(joined, piece) == joined # <<>> /\ Last(joined).len + piece.len <= CHUNK_CHARS
Joins(joined, piece) == joined # <<>> /\ Last(joined).len + piece.len + 2 <= CHUNK_CHARS
Join(joined, piece) ==
    IF Joins(joined, piece)
    THEN Append(Front(joined), Piece(Last(joined).len + piece.len + 2, Last(joined).of + piece.of))
    ELSE Append(joined, piece)

chunk_text(text) == FoldLeft(Join, <<>>, FlattenSeq([k \in DOMAIN text |-> Pieces(text[k])]))
\* null is no document, and the samples are cut into pieces, a text with a word into at least one.
SamplesOK ==
    /\ null \notin KnowledgeDocument
    /\ \A t \in Samples : chunk_text(t) \in Seq([len: Nat, of: Nat]) /\ (t # Blank => chunk_text(t) # <<>>)
-----------------------------------------------------------------------------
(* context_for: the hits, the best first, up to CONTEXT_CHARS; the last one is cut. *)

Spent(used, len) == used + len + 2

AddHit(context, hit) ==
    LET len == Min({TitleChars + hit, CONTEXT_CHARS - context.used})
    IN  IF len <= 0 THEN context
        ELSE [parts |-> Append(context.parts, len), used |-> Spent(context.used, len)]
context_for(hits) == FoldLeft(AddHit, [parts |-> <<>>, used |-> 0], hits).parts
-----------------------------------------------------------------------------
TypeOK ==
    /\ documents \in [Documents -> KnowledgeDocument \cup {null}]
    /\ \A d \in Documents : chunks[d] \subseteq KnowledgeChunk
    /\ files \subseteq Documents
    /\ request \in [Requests -> Request]
    /\ past \in Past

Init ==
    /\ documents = [d \in Documents |-> null]
    /\ chunks = [d \in Documents |-> {}]
    /\ files = {}
    /\ request = [p \in Requests |-> Idle]
    /\ past = [changes |-> 0, used |-> {}, blank |-> FALSE, troubles |-> 0]

_rechunk(text) ==
    LET pieces == chunk_text(text)
    IN  {[version |-> past.changes + 1, position |-> k - 1, text |-> text, piece |-> pieces[k]] : k \in DOMAIN pieces}
New(text, stored) == [text |-> text, chunk_count |-> Len(chunk_text(text)), stored |-> stored]

\* The next identifier.
Unused == IF past.used = Documents THEN {} ELSE {CHOOSE d \in Documents \ past.used : TRUE}
Entered == IF past.used = {} THEN Samples ELSE Texts
Insert(d, text, stored) ==
    /\ past.changes < MaxChanges
    /\ past' = [past EXCEPT !.changes = @ + 1, !.used = @ \cup {d}]
    /\ documents' = [documents EXCEPT ![d] = New(text, stored)]
    /\ chunks' = [chunks EXCEPT ![d] = _rechunk(text)]

create_text(p) ==
    /\ request[p].op = "none"
    /\ \E d \in Unused, text \in Entered : Insert(d, text, FALSE)
    /\ UNCHANGED <<files, request>>

\* The file is in the storage before the row is committed; a file without text is refused.
PutFile(p) ==
    /\ request[p].op = "none"
    /\ \E d \in Unused, text \in Entered \ {Blank} :
         /\ files' = files \cup {d}
         /\ request' = [request EXCEPT ![p] = [Idle EXCEPT !.op = "upload", !.document = d, !.text = text]]
         /\ past' = [past EXCEPT !.used = @ \cup {d}]
    /\ UNCHANGED <<documents, chunks>>
create_file(p) ==
    /\ request[p].op = "upload"
    /\ Insert(request[p].document, request[p].text, TRUE)
    /\ request' = [request EXCEPT ![p] = Idle]
    /\ UNCHANGED files

Load(p, op, d, text) ==
    /\ request[p].op = "none" /\ documents[d] # null
    /\ request' = [request EXCEPT ![p] =
                     [op |-> op, document |-> d, read |-> documents[d],
                      chunks |-> {row.version : row \in chunks[d]}, text |-> text]]
    /\ past' = [past EXCEPT !.blank = @ \/ \E o \in Requests : request[o].document = d /\ Blank \in {text, request[o].text}]
    /\ UNCHANGED <<documents, chunks, files>>
BeginUpdate(p) == \E d \in Documents, text \in Texts : Load(p, "update", d, text)
BeginDelete(p) == \E d \in Documents : Load(p, "delete", d, null)

\* Variant: without uq_knowledge_chunk_position.
NoConstraint(rows) == TRUE
UniquePosition(rows) == \A one, other \in rows : one.position = other.position => one = other
Changed(old, read, new) == [old EXCEPT !.text = IF new.text # read.text THEN new.text ELSE @,
                                       !.chunk_count = IF new.chunk_count # read.chunk_count THEN new.chunk_count ELSE @]
\* The chunks that were loaded are replaced, and the columns that differ written; nothing if the document
\* is gone or a place is taken.
update(p) ==
    LET r == request[p] d == r.document
        kept == {row \in chunks[d] : row.version \notin r.chunks}
        rows == kept \cup _rechunk(r.text)
        accepted == documents[d] # null /\ UniquePosition(rows)
    IN  /\ r.op = "update"
        /\ past.changes < MaxChanges /\ past' = [past EXCEPT !.changes = @ + 1]
        /\ documents' = IF accepted THEN [documents EXCEPT ![d] = Changed(@, r.read, New(r.text, FALSE))] ELSE documents
        /\ chunks' = IF accepted THEN [chunks EXCEPT ![d] = rows] ELSE chunks
        /\ request' = [request EXCEPT ![p] = Idle]
        /\ UNCHANGED files

\* The row goes with whatever chunks it has (ondelete CASCADE), then the file.
delete(p) ==
    LET r == request[p] d == r.document
    IN  /\ r.op = "delete"
        /\ documents' = [documents EXCEPT ![d] = null]
        /\ chunks' = [chunks EXCEPT ![d] = {}]
        /\ request' = [request EXCEPT ![p] = IF r.read.stored THEN [@ EXCEPT !.op = "remove_file"] ELSE Idle]
        /\ UNCHANGED <<files, past>>
RemoveFile(p) ==
    /\ request[p].op = "remove_file"
    /\ files' = files \ {request[p].document}
    /\ request' = [request EXCEPT ![p] = Idle]
    /\ UNCHANGED <<documents, chunks, past>>

\* A process dies, or the storage fails: what was not committed is gone.
Broken(p) ==
    /\ request[p].op # "none" /\ past.troubles < MaxTroubles
    /\ request' = [request EXCEPT ![p] = Idle]
    /\ past' = [past EXCEPT !.troubles = @ + 1]
    /\ UNCHANGED <<documents, chunks, files>>

Next ==
    \E p \in Requests :
        \/ create_text(p) \/ PutFile(p) \/ create_file(p)
        \/ BeginUpdate(p) \/ update(p)
        \/ BeginDelete(p) \/ delete(p) \/ RemoveFile(p) \/ Broken(p)

Spec == Init /\ [][Next]_vars
-----------------------------------------------------------------------------
(* Properties. *)

Present == {d \in Documents : documents[d] # null}

\* What is searched is what is shown: the chunks of a document are those of its text, one at each place,
\* and as many as it says, though two requests replace them at once.
ChunksAreOfText ==
    ~past.blank =>
        \A d \in Documents :
            /\ d \notin Present => chunks[d] = {}
            /\ d \in Present =>
                 /\ {row.text : row \in chunks[d]} \subseteq {documents[d].text}
                 /\ {row.position : row \in chunks[d]} = 0..(documents[d].chunk_count - 1)
                 /\ Cardinality(chunks[d]) = documents[d].chunk_count

\* A text is cut into pieces that are not too long, none of it is lost or repeated, and no two neighbours
\* would go into one.
SplitIsFair ==
    \A d \in Present : LET rows == chunks[d] IN
        /\ \A row \in rows : row.piece.len \in 1..CHUNK_CHARS
        /\ ~past.blank => MapThenSumSet(LAMBDA row : row.piece.of, rows) = Total(FlattenSeq(documents[d].text))
        /\ \A one, next \in rows :
             next.position = one.position + 1 => one.piece.len + next.piece.len + 2 > CHUNK_CHARS

\* What goes into a prompt, with what separates the hits, is not longer than it may be, whichever chunks
\* are found and in whichever order; and it is full, or has all of them.
ContextFits ==
    LET found == {row.piece.len : row \in UNION {chunks[d] : d \in Documents}}
        Whole(parts) == Total(parts) + 2 * (Len(parts) - 1)
    IN  found # {} => \A n \in 1..MaxHits : \A hits \in [1..n -> found] :
            LET parts == context_for(hits) IN
            /\ Whole(parts) <= CONTEXT_CHARS
            /\ Len(parts) = n \/ Whole(parts) + 2 >= CONTEXT_CHARS

\* A document that was uploaded has its file as long as it is there, wherever a process died.
FilesAreThere == \A d \in Present : documents[d].stored => d \in files

\* Shown, searched and stored are the same.
KnowledgeIsKept == TypeOK /\ ChunksAreOfText /\ FilesAreThere

\* What is searched and asked for is the whole text, in parts that are as long as they may be.
TextsFit == SplitIsFair /\ ContextFits
-----------------------------------------------------------------------------
(* Properties the repository states and the code does not have. *)

\* KnowledgeDocument with its chunks (models): the chunks are of its text, also when a text without a
\* word meets another change.
AlwaysOfText == \A d \in Present : {row.text : row \in chunks[d]} \subseteq {documents[d].text}

\* A file is kept for a document (models), for as long as it is there.
NoStrayFiles == \A d \in files : d \in Present \/ \E p \in Requests : request[p].document = d
=============================================================================
