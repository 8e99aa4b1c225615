---------------------------- MODULE ChunkUpload ----------------------------
(***************************************************************************)
(* One recorded answer on its way to the storage: the recorder of the      *)
(* candidate's page (frontend/src/lib/media/recorder.ts), the requests in  *)
(* flight, and the handlers of a chunk and of its completion               *)
(* (interviews/service.py append_chunk, complete_answer; core/storage.py). *)
(*                                                                         *)
(* A request may fail for the page and still be served: it becomes a stray *)
(* request, which the server handles at any later time or never.  Chunk k  *)
(* is ChunkSize bytes, the byte i of it is <<k, i>>.                       *)
(***************************************************************************)
EXTENDS Integers, Sequences, SequencesExt

CONSTANTS Chunks,        \* bound on the chunks MediaRecorder emits
          ChunkSize,     \* bytes of a chunk
          MaxTries,      \* the 6 of sendWithRetry
          MaxLosses,     \* bound on requests that fail for the page
          Requests,      \* requests that can be in flight at once
          None,          \* no request
          EmptyTail,     \* may the last dataavailable event be empty
          StreamMayEnd,  \* may MediaRecorder stop by itself
          ShortWrites,   \* may the disk take a part of a chunk, once
          Reloads        \* may the candidate close or reload the page

\* What the values of the constants have to satisfy.
ParametersOK ==
    /\ {Chunks, ChunkSize, MaxTries} \subseteq Nat \ {0} /\ MaxLosses \in Nat
    /\ None \notin Requests
    /\ {EmptyTail, StreamMayEnd, ShortWrites, Reloads} \subseteq BOOLEAN

VARIABLES client,  \* AnswerRecorder
          net,     \* net[s]: a request in flight
          answer,  \* the row of the answer
          file,    \* the bytes under media_key
          losses,  \* requests that failed so far
          torn     \* history: the disk took a part of a chunk

vars == <<client, net, answer, file, losses, torn>>

Chunk == 1 .. Chunks
Body(k) == [i \in 1 .. ChunkSize |-> <<k, i>>]
\* The recording after n chunks.
Whole(n) == [b \in 1 .. n * ChunkSize |->
                <<1 + ((b - 1) \div ChunkSize), 1 + ((b - 1) % ChunkSize)>>]
Sizes == 0 .. (Chunks + 1) * ChunkSize

\* pc: where drain and sendWithRetry are; fetch: the request awaited.
Client == [rec: {"on", "inactive", "gone"}, recorded: 0 .. Chunks, queue: Seq(Chunk),
           pc: {"idle", "send", "wait"}, fetch: Requests \cup {None}, offset: Sizes,
           attempt: 0 .. MaxTries, failed: BOOLEAN,
           finish: {"no", "drain", "complete", "confirming", "done", "thrown"}]
Started == [rec |-> "on", recorded |-> 0, queue |-> <<>>, pc |-> "idle", fetch |-> None,
            offset |-> 0, attempt |-> 0, failed |-> FALSE, finish |-> "no"]

\* chunk: 0 for the request that completes the answer; at: the offset or size it carries.
Request == [pc: {"free", "sent", "loaded", "appended", "ok", "conflict", "error"},
            chunk: Chunk \cup {0}, at: Sizes]
Free == [pc |-> "free", chunk |-> 0, at |-> 0]
Replies == {"ok", "conflict", "error"}

TypeOK ==
    /\ client \in Client
    /\ net \in [Requests -> Request]
    /\ answer \in [status: {"recording", "uploaded"}, media_size: Sizes]
    /\ file \in Seq(Chunk \X (1 .. ChunkSize))
    /\ losses \in 0 .. MaxLosses /\ torn \in BOOLEAN

Init ==
    /\ client = Started
    /\ net = [s \in Requests |-> Free]
    /\ answer = [status |-> "recording", media_size |-> 0]
    /\ file = <<>> /\ losses = 0 /\ torn = FALSE
-----------------------------------------------------------------------------
(* The page: the queue and its single upload loop. *)

\* dataavailable: a chunk joins the queue, and the loop starts unless it is running.
Emitted(c) ==
    [c EXCEPT !.recorded = @ + 1, !.queue = Append(@, c.recorded + 1),
              !.pc = IF @ = "idle" THEN "send" ELSE @,
              !.attempt = IF c.pc = "idle" THEN 0 ELSE @]

\* finish() goes on when the queue is drained or given up.
Resumed(c) == [c EXCEPT !.finish = IF c.failed THEN "thrown" ELSE "complete"]
\* Variant: the loop ends without waking finish().
NobodyResumed(c) == [c EXCEPT !.pc = "idle"]
DrainEnds(c) == IF c.finish = "drain" THEN Resumed([c EXCEPT !.pc = "idle"])
                                      ELSE [c EXCEPT !.pc = "idle"]
\* Variant: a chunk that cannot be sent is dropped.
DroppedChunk(c) == DrainEnds([c EXCEPT !.failed = TRUE, !.queue = Tail(@)])
GivenUp(c) == DrainEnds([c EXCEPT !.failed = TRUE])

\* The first chunk of the queue is on the server, which holds `size' bytes.
Shifted(c, size) ==
    LET rest == [c EXCEPT !.offset = size, !.queue = Tail(@)]
    IN IF rest.queue = <<>> THEN DrainEnds(rest) ELSE [rest EXCEPT !.pc = "send", !.attempt = 0]

Retried(c) == IF c.attempt < MaxTries THEN [c EXCEPT !.pc = "send"] ELSE GivenUp(c)

Synced(c, size) ==
    IF size >= c.offset + ChunkSize THEN Shifted(c, size) ELSE Retried([c EXCEPT !.offset = size])

\* recorder.stop(): one more chunk, unless MediaRecorder has nothing left.
Stopped(c) ==
    {[d EXCEPT !.rec = "inactive"] :
        d \in (IF c.recorded < Chunks THEN {Emitted(c)} ELSE {})
                \cup (IF EmptyTail \/ c.recorded = Chunks THEN {c} ELSE {})}

Record ==
    /\ client.rec = "on" /\ client.recorded + 1 < Chunks
    /\ client' = Emitted(client)
    /\ UNCHANGED <<net, answer, file, losses, torn>>

\* The camera is unplugged, or MediaRecorder reports an error.
StreamEnds ==
    /\ StreamMayEnd /\ client.rec = "on"
    /\ \E c \in Stopped(client), error \in BOOLEAN :
           client' = [c EXCEPT !.failed = @ \/ error]
    /\ UNCHANGED <<net, answer, file, losses, torn>>

waitForDrain(c) ==
    IF c.queue = <<>> /\ c.pc = "idle" THEN Resumed(c) ELSE [c EXCEPT !.finish = "drain"]

finish ==
    /\ client.finish = "no" /\ client.rec # "gone"
    /\ \E c \in IF client.rec = "on" THEN Stopped(client) ELSE {client} :
           client' = waitForDrain(c)
    /\ UNCHANGED <<net, answer, file, losses, torn>>

uploadChunk(s) ==
    /\ client.pc = "send" /\ net[s].pc = "free"
    /\ net' = [net EXCEPT ![s] = [pc |-> "sent", chunk |-> Head(client.queue),
                                  at |-> client.offset]]
    /\ client' = [client EXCEPT !.pc = "wait", !.fetch = s, !.attempt = @ + 1]
    /\ UNCHANGED <<answer, file, losses, torn>>

completeAnswer(s) ==
    /\ client.finish = "complete" /\ net[s].pc = "free"
    /\ net' = [net EXCEPT ![s] = [pc |-> "sent", chunk |-> 0, at |-> client.offset]]
    /\ client' = [client EXCEPT !.finish = "confirming", !.fetch = s]
    /\ UNCHANGED <<answer, file, losses, torn>>

\* What the page makes of a reply, or of an exception.
Answered(c, reply) ==
    LET awake == [c EXCEPT !.fetch = None]
    IN CASE c.finish = "confirming" ->
              [awake EXCEPT !.finish = IF reply.pc = "ok" THEN "done" ELSE "thrown"]
         [] c.finish # "confirming" /\ reply.pc = "ok" -> Shifted(awake, reply.at)
         [] c.finish # "confirming" /\ reply.pc = "conflict" -> Synced(awake, reply.at)
         [] OTHER -> Retried(awake)

sendWithRetry(s) ==
    /\ client.fetch = s /\ net[s].pc \in Replies
    /\ client' = Answered(client, net[s])
    /\ net' = [net EXCEPT ![s] = Free]
    /\ UNCHANGED <<answer, file, losses, torn>>

\* The connection breaks: the request may have been served, or may be later.
RequestFails(s) ==
    /\ client.fetch = s /\ losses < MaxLosses
    /\ client' = Answered(client, [net[s] EXCEPT !.pc = "error"])
    /\ net' = [net EXCEPT ![s] = IF @.pc \in Replies THEN Free ELSE @]
    /\ losses' = losses + 1
    /\ UNCHANGED <<answer, file, torn>>

\* The blobs live in the memory of the page.
Reload ==
    /\ Reloads /\ client.rec # "gone"
    /\ client' = [Started EXCEPT !.rec = "gone", !.recorded = client.recorded]
    /\ net' = [s \in Requests |-> IF net[s].pc \in Replies THEN Free ELSE net[s]]
    /\ UNCHANGED <<answer, file, losses, torn>>
-----------------------------------------------------------------------------
(* The server: the handlers of PATCH .../chunks and POST .../complete. *)

Reply(s, code, at) ==
    net' = [net EXCEPT ![s] = IF client.fetch = s THEN [@ EXCEPT !.pc = code, !.at = at] ELSE Free]

\* The answer is loaded.  A finished one is a 409 without Upload-Offset, which reads as 0.
Load(s) ==
    /\ net[s].pc = "sent"
    /\ CASE answer.status = "recording" -> net' = [net EXCEPT ![s].pc = "loaded"]
         [] answer.status = "uploaded" ->
              Reply(s, IF net[s].chunk = 0 THEN "ok" ELSE "conflict", 0)
    /\ UNCHANGED <<client, answer, file, losses, torn>>

\* Variant: the offset is not compared with the size.
AnyOffset(at) == TRUE
OffsetMatches(at) == at = Len(file)

append(s) ==
    /\ net[s].pc = "loaded" /\ net[s].chunk # 0
    /\ IF OffsetMatches(net[s].at)
       THEN /\ file' = file \o Body(net[s].chunk)
            /\ net' = [net EXCEPT ![s].pc = "appended", ![s].at = Len(file')]
       ELSE /\ Reply(s, "conflict", Len(file))
            /\ UNCHANGED file
    /\ UNCHANGED <<client, answer, losses, torn>>

\* Variant: the bytes are written before the offset is compared.
ShortWriteUnchecked(s) ==
    /\ ShortWrites /\ ~torn
    /\ net[s].pc = "loaded" /\ net[s].chunk # 0
    /\ \E n \in 1 .. ChunkSize - 1 : file' = file \o SubSeq(Body(net[s].chunk), 1, n)
    /\ Reply(s, "error", 0)
    /\ torn' = TRUE
    /\ UNCHANGED <<client, answer, losses>>

\* The disk is full: write raises after a part of the chunk.
ShortWrite(s) ==
    /\ ShortWrites /\ ~torn
    /\ net[s].pc = "loaded" /\ net[s].chunk # 0 /\ OffsetMatches(net[s].at)
    /\ \E n \in 1 .. ChunkSize - 1 : file' = file \o SubSeq(Body(net[s].chunk), 1, n)
    /\ Reply(s, "error", 0)
    /\ torn' = TRUE
    /\ UNCHANGED <<client, answer, losses>>

\* The commit after the append.
append_chunk(s) ==
    /\ net[s].pc = "appended"
    /\ answer' = [answer EXCEPT !.media_size = net[s].at]
    /\ Reply(s, "ok", net[s].at)
    /\ UNCHANGED <<client, file, losses, torn>>

\* Variant: the size the page reports is not compared.
AnySize(at) == TRUE
SizeMatches(at) == at = 0 \/ at = Len(file)

complete_answer(s) ==
    /\ net[s].pc = "loaded" /\ net[s].chunk = 0
    /\ IF Len(file) > 0 /\ SizeMatches(net[s].at)
       THEN /\ answer' = [status |-> "uploaded", media_size |-> Len(file)]
            /\ Reply(s, "ok", Len(file))
       ELSE /\ Reply(s, "error", 0)
            /\ UNCHANGED answer
    /\ UNCHANGED <<client, file, losses, torn>>

\* A stray request never reaches the server, or its handler dies with the process.
Vanish(s) ==
    /\ client.fetch # s /\ net[s].pc # "free"
    /\ net' = [net EXCEPT ![s] = Free]
    /\ UNCHANGED <<client, answer, file, losses, torn>>
-----------------------------------------------------------------------------
Handled(s) == Load(s) \/ append(s) \/ append_chunk(s) \/ complete_answer(s)
Paged == \E s \in Requests : uploadChunk(s) \/ completeAnswer(s) \/ sendWithRetry(s)

Next ==
    \/ Record \/ StreamEnds \/ finish \/ Reload \/ Paged
    \/ \E s \in Requests : Handled(s) \/ ShortWrite(s) \/ RequestFails(s) \/ Vanish(s)

Spec == Init /\ [][Next]_vars

\* The page runs, and the server handles what has reached it.
FairSpec == Spec /\ WF_vars(Paged) /\ \A s \in Requests : WF_vars(Handled(s))
-----------------------------------------------------------------------------
(* Correctness. *)

\* Until a write ends half-way, the file is the beginning of the recording, byte for byte,
\* whatever is lost, repeated or late (recorder.ts: only the concatenation of the chunks is a
\* valid file).
FileIsPrefix == ~torn => IsPrefix(file, Whole(client.recorded))

\* Until then an answer that is uploaded is the whole recording: no chunk is missing and none
\* comes later.
CompletedIsWhole == ~torn /\ answer.status = "uploaded" => file = Whole(client.recorded)

\* The types, and both of these.
FileIsRecording == TypeOK /\ FileIsPrefix /\ CompletedIsWhole

\* The status is read before the append waits for its turn, and still no byte joins the file of
\* an answer that is complete, also after a short write (append_chunk: a finished recording
\* takes no more chunks).
UploadedIsFrozen == [][answer.status = "uploaded" => file' = file]_vars

\* A chunk leaves the memory of an open page only when the file has it (recorder.ts: chunks
\* stay in memory until they are confirmed).
KeptUntilStored ==
    client.rec # "gone" /\ answer.status = "recording" =>
        Len(file) >= (client.recorded - Len(client.queue)) * ChunkSize

\* Nothing of the recording is lost on the way: the file is it, and the page keeps what the file lacks.
RecordingIsKept == FileIsRecording /\ KeptUntilStored

Gone == client.rec = "gone"

\* Unless the upload has failed before, finish() waits for the chunks and returns or throws: the
\* room does not wait for ever.  And with fewer lost requests than tries, once the candidate has
\* stopped, the whole recording arrives, unless a write ends half-way or the page is closed.
FinishEnded == client.finish \in {"done", "thrown"} \/ Gone
Arrived == file = Whole(client.recorded) \/ torn \/ Gone \/ losses >= MaxTries
FinishDelivers == client.finish = "drain" /\ ~client.failed ~> FinishEnded /\ Arrived

(* Properties the repository states and the code does not have. *)

\* The size of an uploaded answer is the size of its file
\* (tests/test_interview_room.py: media_size is the sum of the chunks).
SizeIsRecorded == answer.status = "uploaded" => answer.media_size = Len(file)

\* finish() ends also when the upload has failed before the candidate stops.
FinishAlwaysEnds == client.finish = "drain" ~> client.finish \in {"done", "thrown"} \/ Gone

\* An interrupted upload goes on after the candidate returns (docs/RUNBOOK.md).
ReturnKeepsChunks ==
    answer.status = "recording" => Len(file) >= (client.recorded - Len(client.queue)) * ChunkSize
=============================================================================
